---- MODULE Spec2Model ----
(***************************************************************************)
(* Order reconciliation pipeline of the sales-order dashboard.            *)
(*                                                                         *)
(* Spec models the SalesOrdersTable component (its React state, the load  *)
(* effect with its four suspension points, the Request verification and   *)
(* Save Dispatched handlers, the verified:confirmed listener) together    *)
(* with the boundary routes it talks to (dispatch, dispatch/keys, verify, *)
(* verify/confirm, stock/batch, sales-orders).                            *)
(*                                                                         *)
(* Strings are sequences of one-character strings, so that the key        *)
(* normalisation is computed as the code computes it.                     *)
(***************************************************************************)
EXTENDS Integers, Sequences, FiniteSets, Bags, TLC

(* ------------------------------------------------------------------------ *)
(* Bounds                                                                   *)
(* ------------------------------------------------------------------------ *)

\* number of events that reach the table from outside in one behaviour:
\* gestures of the operator, a new filters object, a confirmation made in the
\* verify page, a delivery of the broadcast channel
MaxEvents == 4

\* number of events that reach a session the operator only watches
MaxWatchedEvents == 3

\* rows of a drawn order page
MaxPageLen == 3

\* number of gestures on the filter bar in one behaviour
MaxBarEvents == 5

(* ------------------------------------------------------------------------ *)
(* Strings                                                                  *)
(* ------------------------------------------------------------------------ *)

\* JavaScript null / undefined of an optional string field
NULL == <<"null">>

LowerLetters ==
  <<"a", "b", "c", "d", "e", "f", "g", "h", "i", "j", "k", "l", "m",
    "n", "o", "p", "q", "r", "s", "t", "u", "v", "w", "x", "y", "z">>

UpperLetters ==
  <<"A", "B", "C", "D", "E", "F", "G", "H", "I", "J", "K", "L", "M",
    "N", "O", "P", "Q", "R", "S", "T", "U", "V", "W", "X", "Y", "Z">>

IsSpace(c) == c = " "

\* the case mappings of the letters in use, as tables
UpperOf ==
  [c \in {LowerLetters[i] : i \in DOMAIN LowerLetters} |->
     UpperLetters[CHOOSE i \in DOMAIN LowerLetters : LowerLetters[i] = c]]

LowerOf ==
  [c \in {UpperLetters[i] : i \in DOMAIN UpperLetters} |->
     LowerLetters[CHOOSE i \in DOMAIN UpperLetters : UpperLetters[i] = c]]

UpperChar(c) == IF c \in DOMAIN UpperOf THEN UpperOf[c] ELSE c

LowerChar(c) == IF c \in DOMAIN LowerOf THEN LowerOf[c] ELSE c

\* String.prototype.toUpperCase / toLowerCase
ToUpperCase(s) == [i \in 1..Len(s) |-> UpperChar(s[i])]
ToLowerCase(s) == [i \in 1..Len(s) |-> LowerChar(s[i])]

\* length of the run of whitespace at the start of s
RECURSIVE LeadingSpaces(_)
LeadingSpaces(s) ==
  IF s # <<>> /\ IsSpace(Head(s)) THEN 1 + LeadingSpaces(Tail(s)) ELSE 0

RECURSIVE TrailingSpaces(_)
TrailingSpaces(s) ==
  IF s # <<>> /\ IsSpace(s[Len(s)])
    THEN 1 + TrailingSpaces(SubSeq(s, 1, Len(s) - 1))
    ELSE 0

\* String.prototype.trim
Trim(s) ==
  IF s = <<>> \/ (~IsSpace(s[1]) /\ ~IsSpace(s[Len(s)])) THEN s
  ELSE LET w == LeadingSpaces(s)
       IN  IF w = Len(s) THEN <<>> ELSE SubSeq(s, w + 1, Len(s) - TrailingSpaces(s))

\* s.replace(/\s*\[.*?\]/g, ""): at each position, a run of whitespace
\* followed by "[" and the nearest "]" after it is removed
RECURSIVE StripBrackets(_)
StripBrackets(s) ==
  IF \A i \in DOMAIN s : s[i] # "[" THEN s
  ELSE LET w == LeadingSpaces(s)
           closes == {k \in (w + 2)..Len(s) : s[k] = "]"}
       IN  IF w + 1 <= Len(s) /\ s[w + 1] = "[" /\ closes # {}
             THEN LET k == CHOOSE x \in closes : \A y \in closes : x <= y
                  IN  StripBrackets(SubSeq(s, k + 1, Len(s)))
             ELSE <<Head(s)>> \o StripBrackets(Tail(s))

\* s.replace(/\s+/g, " ")
RECURSIVE CollapseSpaces(_)
CollapseSpaces(s) ==
  IF s = <<>> THEN <<>>
  ELSE IF IsSpace(Head(s))
    THEN <<" ">> \o CollapseSpaces(SubSeq(s, LeadingSpaces(s) + 1, Len(s)))
    ELSE <<Head(s)>> \o CollapseSpaces(Tail(s))

DigitChars == <<"0", "1", "2", "3", "4", "5", "6", "7", "8", "9">>

IsDigit(c) == \E i \in DOMAIN DigitChars : DigitChars[i] = c

DigitValue(c) == (CHOOSE i \in DOMAIN DigitChars : DigitChars[i] = c) - 1

RECURSIVE DecimalValue(_)
DecimalValue(s) ==
  IF s = <<>> THEN 0
  ELSE 10 * DecimalValue(SubSeq(s, 1, Len(s) - 1)) + DigitValue(s[Len(s)])

\* a JavaScript number: NaN, or an integer
NaN == [nan |-> TRUE, val |-> 0]
Num(n) == [nan |-> FALSE, val |-> n]

\* Number(s) of a string: whitespace is trimmed, the empty string is 0, a
\* decimal integer with an optional minus sign is its value, the rest is NaN
StringToNumber(s) ==
  LET t == Trim(s)
  IN  IF t = <<>> THEN Num(0)
      ELSE IF \A i \in DOMAIN t : IsDigit(t[i]) THEN Num(DecimalValue(t))
      ELSE IF Head(t) = "-" /\ Len(t) > 1 /\ \A i \in 2..Len(t) : IsDigit(t[i])
        THEN Num(0 - DecimalValue(Tail(t)))
      ELSE NaN

\* values of a JSON field that holds a number, a string or null
JsonNumber(n) == [kind |-> "number", num |-> n, str |-> <<>>]
JsonString(t) == [kind |-> "string", num |-> 0, str |-> t]
JsonNull == [kind |-> "null", num |-> 0, str |-> <<>>]

\* (value ?? "")
OrEmpty(v) == IF v = NULL THEN <<>> ELSE v

normalizeFieldForKey(value) == ToUpperCase(Trim(StripBrackets(OrEmpty(value))))

makeDispatchKey(so, customer, item, color) ==
  normalizeFieldForKey(so) \o <<"|">> \o normalizeFieldForKey(customer)
    \o <<"|">> \o normalizeFieldForKey(item) \o <<"|">> \o normalizeFieldForKey(color)

\* makeDispatchKey(r.SO_No, r.Customer, r.Item, r.Color).toUpperCase()
rowKeyFrom(r) == ToUpperCase(makeDispatchKey(r.SO_No, r.Customer, r.Item, r.Color))

normItemKey(s) ==
  IF s = NULL \/ s = <<>> THEN <<>>
  ELSE ToLowerCase(Trim(CollapseSpaces(StripBrackets(s))))

(* ------------------------------------------------------------------------ *)
(* Fixture: what the warehouse holds                                        *)
(* ------------------------------------------------------------------------ *)

\* rows of the order page as /api/sales-orders returns them (already
\* deduplicated and ordered by the query); total is the count query's result
OrderPage ==
  << [SO_No |-> <<"s">>, Customer |-> <<"A", "c">>, Item |-> <<"i", "t">>,
      Color |-> <<"r">>, hasQty |-> TRUE, OrderQty |-> 2,
      hasDate |-> TRUE, so_date |-> 1, Status |-> "Active"],
     [SO_No |-> <<"s">>, Customer |-> <<"A", "c">>, Item |-> <<"i", "b">>,
      Color |-> <<"b">>, hasQty |-> TRUE, OrderQty |-> 1,
      hasDate |-> TRUE, so_date |-> 2, Status |-> "Active"] >>

ServerTotal == Len(OrderPage)

\* rows of the stock table
StockRows ==
  << [normalized_item |-> <<"i", "t">>, Color |-> <<"b">>,
      Closing_Stock |-> JsonNumber(3)] >>

\* limit of the initial filters and draft
DefaultLimit == 25

\* useState<Draft>: the draft of the filter bar as the page mounts
InitialDraft ==
  [tokens |-> <<>>, startDate |-> "", endDate |-> "", limit |-> DefaultLimit,
   customers |-> <<>>, items |-> <<>>]

\* useState<Filters>: the applied filters as the page mounts
InitialFilters ==
  [q |-> "", tokens |-> <<>>, brand |-> "", city |-> "", startDate |-> "",
   endDate |-> "", limit |-> DefaultLimit, customers |-> <<>>, items |-> <<>>]

\* GROUPABLE_OPTIONS, and useState<GroupKey[]>(["Item"])
GROUPABLE_OPTIONS == <<"Customer", "Item", "Color", "Broker", "Status">>
InitialGroupBy == <<"Item">>

\* no customer / item selection in the filters
NoSelection == [customers |-> {}, items |-> {}]

\* value of a production-quantity input
ProductionQtyInput == 1

(* ------------------------------------------------------------------------ *)
(* Boundary routes (pure parts)                                             *)
(* ------------------------------------------------------------------------ *)

SeqToSet(s) == {s[i] : i \in DOMAIN s}

Max(a, b) == IF a >= b THEN a ELSE b

\* COALESCE(UPPER(TRIM(f)), '') of the dispatch_key SQL
SqlUpperTrim(f) == IF f = NULL THEN <<>> ELSE ToUpperCase(Trim(f))

\* dispatch_key of one stored dispatch record
dispatch_key(rec) ==
  SqlUpperTrim(rec.SO_No) \o <<"|">> \o SqlUpperTrim(rec.Customer)
    \o <<"|">> \o SqlUpperTrim(rec.Item) \o <<"|">> \o SqlUpperTrim(rec.Color)

\* GET /api/dispatch/keys: SELECT DISTINCT dispatch_key ... WHERE SO_No IS NOT NULL
DispatchKeysGET(table) ==
  {k \in {dispatch_key(rec) : rec \in {x \in table : x.SO_No # NULL}} : Len(k) > 0}

\* POST /api/dispatch: rows without a non-blank string SO_No are dropped, the
\* others are stored with SO_No trimmed and only the whitelisted columns
rowsToInsert(posted) ==
  { [SO_No |-> Trim(r.SO_No), Customer |-> r.Customer, Item |-> r.Item,
     Color |-> r.Color] :
      r \in {x \in SeqToSet(posted) : x.SO_No # NULL /\ Trim(x.SO_No) # <<>>} }

normalizeKeyPart(s) == ToUpperCase(Trim(StripBrackets(OrEmpty(s))))

makeGroupKey(so, customer, item, color) ==
  normalizeKeyPart(so) \o <<"|">> \o normalizeKeyPart(customer)
    \o <<"|">> \o normalizeKeyPart(item) \o <<"|">> \o normalizeKeyPart(color)

VerifyRecKey(rec) == makeGroupKey(rec.SO_No, rec.Customer, rec.Item, rec.Color)

\* GET /api/verify: one merged record per composite key; verified_at is taken
\* from a record that has one, New_Color from a record that has a non-empty one
mergeVerifyRows(table) ==
  { [key |-> k,
     verified_at |-> \E rec \in table : VerifyRecKey(rec) = k /\ rec.verified_at,
     New_Color |->
       LET cs == {rec.New_Color : rec \in
                    {x \in table : VerifyRecKey(x) = k /\ x.New_Color # NULL
                                      /\ Trim(x.New_Color) # <<>>}}
       IN  IF cs = {} THEN NULL ELSE CHOOSE c \in cs : TRUE] :
      k \in {VerifyRecKey(rec) : rec \in table} }

\* POST /api/verify (buildWhitelistedRow): pending records, verified_at = null
buildWhitelistedRow(r) ==
  [SO_No |-> OrEmpty(r.SO_No), Customer |-> r.Customer, Item |-> r.Item,
   Color |-> r.Color, New_Color |-> r.New_Color, verified_at |-> FALSE]

\* POST /api/verify/confirm (buildWhitelistedRowForConfirm): New_Color is not
\* a whitelisted column, verified_at = now
buildWhitelistedRowForConfirm(r) ==
  [SO_No |-> OrEmpty(r.SO_No), Customer |-> r.Customer, Item |-> r.Item,
   Color |-> r.Color, New_Color |-> NULL, verified_at |-> TRUE]

(* ------------------------------------------------------------------------ *)
(* Reconciliation pipeline of one cycle (pure parts of load)                *)
(* ------------------------------------------------------------------------ *)

\* keys.map((k) => (k ?? "").toString().trim().toUpperCase())
localDispatchedSetOf(keys) == {ToUpperCase(Trim(k)) : k \in keys}

\* keys of the merged verification records without / with a timestamp
localPendingSetOf(vrows) == {ToUpperCase(v.key) : v \in {x \in vrows : ~x.verified_at}}
localVerifiedSetOf(vrows) == {ToUpperCase(v.key) : v \in {x \in vrows : x.verified_at}}

\* verifyRec.New_Color of the record of a key, NULL when there is none
newColorFromServer(vrows, key) ==
  LET hit == {v \in vrows : ToUpperCase(v.key) = key /\ v.New_Color # NULL
                             /\ v.New_Color # <<>>}
  IN  IF hit = {} THEN NULL ELSE (CHOOSE v \in hit : TRUE).New_Color

\* incoming.map(...): uid, New_Color from the verification record, no stock yet
rowsWithUidOf(c, incoming, vrows) ==
  [i \in 1..Len(incoming) |->
     [SO_No |-> incoming[i].SO_No, Customer |-> incoming[i].Customer,
      Item |-> incoming[i].Item, Color |-> incoming[i].Color,
      New_Color |-> newColorFromServer(vrows, rowKeyFrom(incoming[i])),
      hasQty |-> incoming[i].hasQty, OrderQty |-> incoming[i].OrderQty,
      hasDate |-> incoming[i].hasDate, so_date |-> incoming[i].so_date,
      Status |-> incoming[i].Status,
      hasStock |-> FALSE, Stock |-> 0, StockByColor |-> {},
      uid |-> <<c, i>>]]

\* rowsWithUid.filter((row) => !set.has(key)), applied when set.size > 0
excludeKeys(rws, set) ==
  IF set = {} THEN rws ELSE SelectSeq(rws, LAMBDA r : rowKeyFrom(r) \notin set)

\* a load() that filters nothing out of the page
afterExclusionOfNothing(rws, dispatched, pending, originPendingKeys) == rws

\* the three exclusions: dispatched, pending, pendingMap of the closure
afterExclusion(rws, dispatched, pending, originPendingKeys) ==
  excludeKeys(excludeKeys(excludeKeys(rws, dispatched), pending), originPendingKeys)

\* items asked from /api/stock/batch
stockItemKeys(rws) == {normItemKey(rws[i].Item) : i \in DOMAIN rws} \ {<<>>}

\* POST /api/stock/batch: the rows of the stock table whose normalized item,
\* trimmed and lower-cased, is one of the items asked for (trimmed, lower-cased,
\* blanks dropped); no item, no row
StockBatchPOST(table, items) ==
  LET asked == {ToLowerCase(Trim(k)) : k \in items} \ {<<>>}
  IN  SelectSeq(table, LAMBDA r : ToLowerCase(Trim(r.normalized_item)) \in asked)

\* cs of a stock row: the number itself, or Number(Closing_Stock ?? NaN)
closingStockOf(v) ==
  IF v.kind = "number" THEN Num(v.num)
  ELSE IF v.kind = "null" THEN NaN
  ELSE StringToNumber(v.str)

\* the stock rows the loop does not skip: non-empty item, cs is not NaN
countedStockRows(stockRows) ==
  SelectSeq(stockRows, LAMBDA r : ToLowerCase(Trim(r.normalized_item)) # <<>>
                                    /\ ~closingStockOf(r.Closing_Stock).nan)

\* totalStockMap[item] over rows already counted
RECURSIVE SumStock(_, _, _)
SumStock(stockRows, item, colors) ==
  IF stockRows = <<>> THEN 0
  ELSE (IF ToLowerCase(Trim(Head(stockRows).normalized_item)) = item
           /\ Trim(Head(stockRows).Color) \in colors
          THEN closingStockOf(Head(stockRows).Closing_Stock).val ELSE 0)
       + SumStock(Tail(stockRows), item, colors)

\* keys of colorStockMap[item] over rows already counted
stockColorsOf(stockRows, item) ==
  {Trim(stockRows[i].Color) : i \in
     {j \in DOMAIN stockRows : ToLowerCase(Trim(stockRows[j].normalized_item)) = item}}

\* Stock / StockByColor of every row from totalStockMap / colorStockMap
withStock(rws, stockRows) ==
  [i \in DOMAIN rws |->
     LET key == normItemKey(rws[i].Item)
         counted == countedStockRows(stockRows)
         cols == stockColorsOf(counted, key)
     IN  IF key # <<>> /\ cols # {}
           THEN [rws[i] EXCEPT !.hasStock = TRUE,
                               !.Stock = SumStock(counted, key, cols),
                               !.StockByColor = cols]
           ELSE [rws[i] EXCEPT !.hasStock = FALSE, !.Stock = 0, !.StockByColor = {}]]

Sign(n) == IF n > 0 THEN 1 ELSE IF n < 0 THEN 0 - 1 ELSE 0

\* Number(r.OrderQty ?? 0)
qtyOf(r) == IF r.hasQty THEN r.OrderQty ELSE 0

\* a comparator that takes a row without stock as +Infinity
sortCompareUnknownStockFirst(a, b) ==
  IF qtyOf(b) # qtyOf(a) THEN Sign(qtyOf(b) - qtyOf(a))
  ELSE IF a.hasStock # b.hasStock THEN (IF a.hasStock THEN 1 ELSE 0 - 1)
  ELSE IF a.hasStock /\ b.Stock # a.Stock THEN Sign(b.Stock - a.Stock)
  ELSE IF a.hasDate /\ b.hasDate THEN Sign(a.so_date - b.so_date)
  ELSE IF a.hasDate THEN 0 - 1
  ELSE IF b.hasDate THEN 1
  ELSE 0

\* sign of what the comparator of rowsWithUid.sort returns; a row without
\* stock counts as -Infinity, a row without date as +Infinity, and the NaN of
\* Infinity - Infinity is taken by sort as +0
sortCompare(a, b) ==
  IF qtyOf(b) # qtyOf(a) THEN Sign(qtyOf(b) - qtyOf(a))
  ELSE IF a.hasStock # b.hasStock THEN (IF a.hasStock THEN 0 - 1 ELSE 1)
  ELSE IF a.hasStock /\ b.Stock # a.Stock THEN Sign(b.Stock - a.Stock)
  ELSE IF a.hasDate /\ b.hasDate THEN Sign(a.so_date - b.so_date)
  ELSE IF a.hasDate THEN 0 - 1
  ELSE IF b.hasDate THEN 1
  ELSE 0

\* a is placed before b
sortBefore(a, b) == sortCompare(a, b) < 0

\* the values the comparator reads, in every combination of missing and
\* present quantity, stock and date
SortProbes ==
  {[hasQty |-> q[1], OrderQty |-> q[2], hasStock |-> st[1], Stock |-> st[2],
    hasDate |-> d[1], so_date |-> d[2]] :
     q \in {<<FALSE, 0>>, <<TRUE, 0>>, <<TRUE, 1>>, <<TRUE, 2>>},
     st \in {<<FALSE, 0>>, <<TRUE, 0>>, <<TRUE, 1>>, <<TRUE, 2>>},
     d \in {<<FALSE, 0>>, <<TRUE, 1>>, <<TRUE, 2>>}}

\* the comparator over the probes: cmp(a, a) = 0, cmp(a, b) = -cmp(b, a),
\* and cmp(a, b) <= 0, cmp(b, c) <= 0 give cmp(a, c) <= 0
sortCompareIsConsistent ==
  /\ \A a \in SortProbes : sortCompare(a, a) = 0
  /\ \A a, b \in SortProbes : sortCompare(a, b) = 0 - sortCompare(b, a)
  /\ \A a, b \in SortProbes :
        sortCompare(a, b) <= 0
          => \A c \in SortProbes : sortCompare(b, c) <= 0 => sortCompare(a, c) <= 0

RECURSIVE insertSorted(_, _)
insertSorted(x, sorted) ==
  IF sorted = <<>> THEN <<x>>
  ELSE IF sortBefore(x, Head(sorted)) THEN <<x>> \o sorted
  ELSE <<Head(sorted)>> \o insertSorted(x, Tail(sorted))

\* Array.prototype.sort is stable
RECURSIVE sortRows(_)
sortRows(rws) ==
  IF rws = <<>> THEN <<>>
  ELSE insertSorted(rws[Len(rws)], sortRows(SubSeq(rws, 1, Len(rws) - 1)))

\* rows whose Stock is the number 0 are dropped, rows without stock data kept
filteredRowsOf(rws) == SelectSeq(rws, LAMBDA r : ~(r.hasStock /\ r.Stock = 0))

\* normalizeCustomerForCompare / normalizeItemForCompare
normalizeCustomerForCompare(v) == ToLowerCase(Trim(StripBrackets(OrEmpty(v))))
normalizeItemForCompare(v) == ToLowerCase(Trim(OrEmpty(v)))

\* the customer / item multi-select filter
finalRowsOf(rws, f) ==
  LET selectedCustomersSet == {normalizeCustomerForCompare(x) : x \in f.customers}
      selectedItemsSet == {normalizeItemForCompare(x) : x \in f.items}
  IN  SelectSeq(rws, LAMBDA r :
        /\ (selectedCustomersSet # {}
              => normalizeCustomerForCompare(r.Customer) \in selectedCustomersSet)
        /\ (selectedItemsSet # {}
              => normalizeItemForCompare(r.Item) \in selectedItemsSet))

\* a total that counts the published rows only
computedTotalOfPublished(serverTotal, incomingLen, filteredLen, finalLen) == finalLen

\* computedTotal of load(): the server's total less the rows removed by the
\* exclusions and the zero-stock filter, less those removed by the selection
computedTotalOf(serverTotal, incomingLen, filteredLen, finalLen) ==
  Max(0, serverTotal - Max(0, incomingLen - filteredLen) - Max(0, filteredLen - finalLen))

(* ------------------------------------------------------------------------ *)
(* State                                                                    *)
(* ------------------------------------------------------------------------ *)

VARIABLES
  rows,                \* useState<SalesOrderRow[]>: the visible rows, in order
  total,               \* displayed total
  loading,             \* loading flag
  checked,             \* uids whose checkbox is ticked (checked[uid] = true)
  saving,              \* a Save Dispatched request is being sent
  verifying,           \* a Request verification submission is being sent
  dispatchedSet,       \* client copy of the dispatched keys
  pendingSet,          \* client copy of the pending keys
  pendingMap,          \* key -> row whose verification this session requested
  selectedColors,      \* key -> selected replacement colour
  productionQtyByUid,  \* uid -> produced quantity typed by the operator
  dispatchTable,       \* warehouse: records of dispatched_orders
  verifyTable,         \* warehouse: records of verified_sales_orders
  channel,             \* verified:confirmed rows posted on the broadcast channel
  cycles,              \* the runs of the load effect, the last one is current
  saveReqs,            \* Save Dispatched requests in flight (with their closure)
  verifyReqs,          \* Request verification submissions in flight
  consoleErrors,       \* what the two request handlers wrote with console.error
  savedKeys,           \* history: keys of the rows of every accepted Save Dispatched
  events,              \* number of outside events so far
  orderPage,           \* warehouse: the page the order query returns
  orderCount,          \* warehouse: what the count query returns
  stockTable,          \* warehouse: rows of the stock table
  filters,             \* the filters prop: customer / item selections
  awaiting,            \* history: keys with an accepted request not yet confirmed
  deliveries,          \* history: number of verified:confirmed deliveries handled
  cancelDialogOrder,   \* the order of the open cancel dialog, <<>> when closed
  cancelReqs,          \* Cancel order requests in flight
  earlyReturns,        \* history: handler invocations that returned before sending
  draft,               \* useSalesFilters: the draft of the filter bar
  groupBy,             \* useSalesFilters: the group-by keys
  call,                \* a function or route that was called, with its arguments
  result               \* what that call returned

clientVars ==
  <<rows, total, loading, checked, saving, verifying, dispatchedSet, pendingSet,
    pendingMap, selectedColors, productionQtyByUid>>

serverVars == <<dispatchTable, verifyTable, channel, orderPage, orderCount, stockTable>>

vars ==
  <<rows, total, loading, checked, saving, verifying, dispatchedSet, pendingSet,
    pendingMap, selectedColors, productionQtyByUid, dispatchTable, verifyTable,
    channel, cycles, saveReqs, verifyReqs, consoleErrors, savedKeys, events,
    orderPage, orderCount, stockTable, filters, awaiting, deliveries,
    cancelDialogOrder,
    cancelReqs, earlyReturns, draft, groupBy, call, result>>

\* Record<string, T> helpers
EmptyMap == <<>>
MapPut(f, k, v) == [x \in (DOMAIN f) \cup {k} |-> IF x = k THEN v ELSE f[x]]
MapDel(f, ks) == [x \in (DOMAIN f) \ ks |-> f[x]]

rowKeys(rws) == {rowKeyFrom(rws[i]) : i \in DOMAIN rws}
rowUids(rws) == {rws[i].uid : i \in DOMAIN rws}

\* Object.values(checked).filter(Boolean).length
selectedCount == Cardinality(checked)

\* a run of load() that has just been started by the effect
NewCycle(pm) ==
  [pc |-> "keys", aborted |-> FALSE, originPendingKeys |-> DOMAIN pm,
   localDispatchedSet |-> {}, localPendingSet |-> {}, vrows |-> {},
   rowsWithUid |-> <<>>, incomingLen |-> 0, stockKeys |-> {},
   fetched |-> {}]

\* a run of load() that has returned
DoneCycle ==
  [pc |-> "done", aborted |-> FALSE, originPendingKeys |-> {},
   localDispatchedSet |-> {}, localPendingSet |-> {}, vrows |-> {},
   rowsWithUid |-> <<>>, incomingLen |-> 0, stockKeys |-> {},
   fetched |-> {}]

\* cleanup of the load effect: abortCtrl.abort() of the run that is current
abortCurrent(cs) ==
  [i \in DOMAIN cs |->
     IF i = Len(cs) /\ cs[i].pc # "done" THEN [cs[i] EXCEPT !.aborted = TRUE]
     ELSE cs[i]]

\* the load effect re-runs (a dependency changed identity): the cleanup aborts
\* the current run, load() starts; load() begins with setLoading(true)
restartLoad(pm) ==
  /\ cycles' = Append(abortCurrent(cycles), NewCycle(pm))
  /\ loading' = TRUE

\* the component as it mounts: initial React state, the first run of load()
InitSession ==
  /\ rows = <<>>
  /\ total = 0
  /\ loading = TRUE
  /\ checked = {}
  /\ saving = FALSE
  /\ verifying = FALSE
  /\ dispatchedSet = {}
  /\ pendingSet = {}
  /\ pendingMap = EmptyMap
  /\ selectedColors = EmptyMap
  /\ productionQtyByUid = EmptyMap
  /\ channel = {}
  /\ cycles = <<NewCycle(EmptyMap)>>
  /\ saveReqs = EmptyBag
  /\ verifyReqs = EmptyBag
  /\ consoleErrors = {}
  /\ savedKeys = {}
  /\ events = 0
  /\ deliveries = 0
  /\ cancelDialogOrder = <<>>
  /\ cancelReqs = EmptyBag
  /\ earlyReturns = 0
  /\ draft = InitialDraft
  /\ groupBy = InitialGroupBy
  /\ result = <<>>

\* a session against a warehouse in which nothing was dispatched or submitted
Init ==
  /\ InitSession
  /\ call = <<>>
  /\ dispatchTable = {}
  /\ verifyTable = {}
  /\ awaiting = {}
  /\ orderPage = OrderPage
  /\ orderCount = ServerTotal
  /\ stockTable = StockRows
  /\ filters = NoSelection

(* ------------------------------------------------------------------------ *)
(* The load effect: one action per resumption after an await                *)
(* ------------------------------------------------------------------------ *)

\* an aborted fetch rejects with AbortError: setLoading(false); return
\* (dispatch keys and verification fetches), or return through finally (orders)
LoadAborted(c) ==
  /\ cycles[c].pc \in {"keys", "verify", "orders"}
  /\ cycles[c].aborted
  /\ loading' = FALSE
  /\ cycles' = [cycles EXCEPT ![c] = DoneCycle]
  /\ UNCHANGED <<rows, total, checked, saving, verifying, dispatchedSet,
                 pendingSet, pendingMap, selectedColors, productionQtyByUid,
                 dispatchTable, verifyTable, channel, saveReqs, verifyReqs,
                 consoleErrors, savedKeys,
                 awaiting, deliveries>>

\* a load() that returns when GET /api/dispatch/keys fails, as a cancelled one
\* does, without setLoading(false)
LoadKeysDoneGivingUp(c, ok) ==
  /\ cycles[c].pc = "keys"
  /\ ~cycles[c].aborted
  /\ LET lds == localDispatchedSetOf(DispatchKeysGET(dispatchTable))
     IN  IF ok
           THEN /\ dispatchedSet' = lds
                /\ cycles' = [cycles EXCEPT ![c].pc = "verify",
                                             ![c].localDispatchedSet = lds,
                                             ![c].fetched = @ \cup {"keys"}]
           ELSE /\ cycles' = [cycles EXCEPT ![c] = DoneCycle]
                /\ UNCHANGED dispatchedSet
  /\ UNCHANGED <<rows, total, loading, checked, saving, verifying, pendingSet,
                 pendingMap, selectedColors, productionQtyByUid, dispatchTable,
                 verifyTable, channel, saveReqs, verifyReqs,
                 consoleErrors, savedKeys,
                 awaiting, deliveries>>

\* GET /api/dispatch/keys answered; ok = FALSE is a non-2xx answer or a
\* network error, both leave localDispatchedSet empty
LoadKeysDone(c, ok) ==
  /\ cycles[c].pc = "keys"
  /\ ~cycles[c].aborted
  /\ LET lds == IF ok THEN localDispatchedSetOf(DispatchKeysGET(dispatchTable)) ELSE {}
     IN  /\ dispatchedSet' = lds
         /\ cycles' = [cycles EXCEPT ![c].pc = "verify", ![c].localDispatchedSet = lds,
                                      ![c].fetched = @ \cup {"keys"}]
  /\ UNCHANGED <<rows, total, loading, checked, saving, verifying, pendingSet,
                 pendingMap, selectedColors, productionQtyByUid, dispatchTable,
                 verifyTable, channel, saveReqs, verifyReqs,
                 consoleErrors, savedKeys,
                 awaiting, deliveries>>

\* GET /api/verify answered
LoadVerifyDone(c, ok) ==
  /\ cycles[c].pc = "verify"
  /\ ~cycles[c].aborted
  /\ LET vrows == IF ok THEN mergeVerifyRows(verifyTable) ELSE {}
         lps == localPendingSetOf(vrows)
     IN  /\ pendingSet' = lps
         /\ cycles' = [cycles EXCEPT ![c].pc = "orders", ![c].localPendingSet = lps,
                                      ![c].vrows = vrows,
                                      ![c].fetched = @ \cup {"verify"}]
  /\ UNCHANGED <<rows, total, loading, checked, saving, verifying, dispatchedSet,
                 pendingMap, selectedColors, productionQtyByUid, dispatchTable,
                 verifyTable, channel, saveReqs, verifyReqs,
                 consoleErrors, savedKeys,
                 awaiting, deliveries>>

\* the body of the response of GET /api/sales-orders: the page and the result
\* of the count query over the same filters
ordersResponse == [rows |-> orderPage, total |-> orderCount]

\* serverTotal of load(): data.total, which the route always sends as a number
serverTotalOf(data) == data.total

\* the tail of load(): sort, zero-stock filter, customer/item filter,
\* setRows, setTotal, setChecked({}), finally
finishLoad(c, rws, incomingLen) ==
  LET sorted == sortRows(rws)
      filteredRows == filteredRowsOf(sorted)
      finalRows == finalRowsOf(filteredRows, filters)
  IN  /\ rows' = finalRows
      /\ total' = computedTotalOf(serverTotalOf(ordersResponse), incomingLen,
                                  Len(filteredRows), Len(finalRows))
      /\ checked' = {}
      /\ loading' = FALSE
      /\ cycles' = [cycles EXCEPT ![c] = DoneCycle]

\* pre-selection of the replacement colour of the verification record of
\* every incoming row that has one
preselectColors(sc, incoming, vrows) ==
  [k \in (DOMAIN sc) \cup {rowKeyFrom(incoming[i]) : i \in
          {j \in DOMAIN incoming : newColorFromServer(vrows, rowKeyFrom(incoming[j])) # NULL}}
     |-> IF newColorFromServer(vrows, k) # NULL /\ k \in rowKeys(incoming)
           THEN newColorFromServer(vrows, k) ELSE sc[k]]

\* GET /api/sales-orders answered with the page
LoadOrdersDone(c) ==
  /\ cycles[c].pc = "orders"
  /\ ~cycles[c].aborted
  /\ LET incoming == orderPage
         rws == afterExclusion(rowsWithUidOf(c, incoming, cycles[c].vrows),
                               cycles[c].localDispatchedSet,
                               cycles[c].localPendingSet,
                               cycles[c].originPendingKeys)
     IN  /\ selectedColors' = preselectColors(selectedColors, incoming, cycles[c].vrows)
         /\ IF stockItemKeys(rws) # {}
              THEN /\ cycles' = [cycles EXCEPT ![c].pc = "stock", ![c].rowsWithUid = rws,
                                               ![c].incomingLen = Len(incoming),
                                               ![c].stockKeys = stockItemKeys(rws)]
                   /\ UNCHANGED <<rows, total, checked, loading>>
              ELSE finishLoad(c, rws, Len(incoming))
  /\ UNCHANGED <<saving, verifying, dispatchedSet, pendingSet, pendingMap,
                 productionQtyByUid, dispatchTable, verifyTable, channel,
                 saveReqs, verifyReqs, consoleErrors, savedKeys,
                 awaiting, deliveries>>

\* GET /api/sales-orders answered non-2xx: setRows([]); setTotal(0);
\* setLoading(false); return
LoadOrdersNotOk(c) ==
  /\ cycles[c].pc = "orders"
  /\ ~cycles[c].aborted
  /\ rows' = <<>>
  /\ total' = 0
  /\ loading' = FALSE
  /\ cycles' = [cycles EXCEPT ![c] = DoneCycle]
  /\ UNCHANGED <<checked, saving, verifying, dispatchedSet, pendingSet, pendingMap,
                 selectedColors, productionQtyByUid, dispatchTable, verifyTable,
                 channel, saveReqs, verifyReqs, consoleErrors, savedKeys,
                 awaiting, deliveries>>

\* GET /api/sales-orders failed with a network error: console.error, finally
LoadOrdersError(c) ==
  /\ cycles[c].pc = "orders"
  /\ ~cycles[c].aborted
  /\ loading' = FALSE
  /\ cycles' = [cycles EXCEPT ![c] = DoneCycle]
  /\ UNCHANGED <<rows, total, checked, saving, verifying, dispatchedSet,
                 pendingSet, pendingMap, selectedColors, productionQtyByUid,
                 dispatchTable, verifyTable, channel, saveReqs, verifyReqs,
                 consoleErrors, savedKeys,
                 awaiting, deliveries>>

\* POST /api/stock/batch answered; the request carries no abort signal, so
\* this runs whether or not the cycle was superseded; ok = FALSE is a non-2xx
\* answer or a network error, both leave the rows without stock
LoadStockDone(c, ok) ==
  /\ cycles[c].pc = "stock"
  /\ finishLoad(c, IF ok THEN withStock(cycles[c].rowsWithUid,
                                        StockBatchPOST(stockTable, cycles[c].stockKeys))
                         ELSE cycles[c].rowsWithUid, cycles[c].incomingLen)
  /\ UNCHANGED <<saving, verifying, dispatchedSet, pendingSet, pendingMap,
                 selectedColors, productionQtyByUid, dispatchTable, verifyTable,
                 channel, saveReqs, verifyReqs, consoleErrors, savedKeys,
                 awaiting, deliveries>>

\* the parent passes a new filters object (apply pressed): the effect re-runs
FiltersChanged ==
  /\ restartLoad(pendingMap)
  /\ UNCHANGED <<rows, total, checked, saving, verifying, dispatchedSet, pendingSet,
                 pendingMap, selectedColors, productionQtyByUid, dispatchTable,
                 verifyTable, channel, saveReqs, verifyReqs,
                 consoleErrors, savedKeys,
                 awaiting, deliveries>>

(* ------------------------------------------------------------------------ *)
(* Table body controls (rendered only while loading is false)               *)
(* ------------------------------------------------------------------------ *)

\* toggleRowCheckedByUid / the row checkbox
ToggleRowChecked(i) ==
  /\ ~loading
  /\ i \in DOMAIN rows
  /\ checked' = IF rows[i].uid \in checked THEN checked \ {rows[i].uid}
                ELSE checked \cup {rows[i].uid}
  /\ UNCHANGED <<rows, total, loading, saving, verifying, dispatchedSet, pendingSet,
                 pendingMap, selectedColors, productionQtyByUid, dispatchTable,
                 verifyTable, channel, cycles, saveReqs, verifyReqs,
                 consoleErrors, savedKeys,
                 awaiting, deliveries>>

\* toggleSelectColorForRow(row, color): one pill per colour of StockByColor
ToggleSelectColor(i, color) ==
  /\ ~loading
  /\ i \in DOMAIN rows
  /\ color \in rows[i].StockByColor
  /\ LET key == rowKeyFrom(rows[i])
     IN  selectedColors' =
           IF key \in DOMAIN selectedColors /\ selectedColors[key] = color
             THEN MapDel(selectedColors, {key})
             ELSE MapPut(selectedColors, key, color)
  /\ UNCHANGED <<rows, total, loading, checked, saving, verifying, dispatchedSet,
                 pendingSet, pendingMap, productionQtyByUid, dispatchTable,
                 verifyTable, channel, cycles, saveReqs, verifyReqs,
                 consoleErrors, savedKeys,
                 awaiting, deliveries>>

\* the production-quantity input of a row
SetProductionQty(i) ==
  /\ ~loading
  /\ i \in DOMAIN rows
  /\ productionQtyByUid' = MapPut(productionQtyByUid, rows[i].uid, ProductionQtyInput)
  /\ UNCHANGED <<rows, total, loading, checked, saving, verifying, dispatchedSet,
                 pendingSet, pendingMap, selectedColors, dispatchTable, verifyTable,
                 channel, cycles, saveReqs, verifyReqs,
                 consoleErrors, savedKeys,
                 awaiting, deliveries>>

(* ------------------------------------------------------------------------ *)
(* Save Dispatched                                                          *)
(* ------------------------------------------------------------------------ *)

\* a decrement that is not clamped at 0
decrementTotalUnclamped(t, n) == t - n

\* setTotal((t) => Math.max(0, t - n))
decrementTotal(t, n) == Max(0, t - n)

\* a ?? b
Coalesce(a, b) == IF a # NULL THEN a ELSE b

\* the row posted to /api/dispatch for a visible row
dispatchRowOf(r, sc, pq) ==
  LET compositeKey == rowKeyFrom(r)
      selectedNew == Coalesce(IF compositeKey \in DOMAIN sc THEN sc[compositeKey] ELSE NULL,
                              r.New_Color)
      finalColor == Coalesce(selectedNew, r.Color)
  IN  [SO_No |-> OrEmpty(r.SO_No), Customer |-> r.Customer, Item |-> r.Item,
       Old_Color |-> r.Color, New_Color |-> selectedNew, Color |-> finalColor,
       hasProductionQty |-> r.uid \in DOMAIN pq]

\* rows.filter((r) => r.__uid && selectedUids.includes(r.__uid)).map(...)
selectedRowsOf(rws, selectedUids, sc, pq) ==
  LET sel == SelectSeq(rws, LAMBDA r : r.uid \in selectedUids)
  IN  [i \in DOMAIN sel |-> dispatchRowOf(sel[i], sc, pq)]

\* rows.filter((r) => !(r.__uid && selectedUids.includes(r.__uid)))
remainingOf(rws, selectedUids) == SelectSeq(rws, LAMBDA r : r.uid \notin selectedUids)

\* composite keys of the visible rows a request submitted
submittedKeysOf(req) ==
  {rowKeyFrom(req.rows[i]) : i \in {j \in DOMAIN req.rows :
                                      req.rows[j].uid \in req.selectedUids}}

\* the key handleSaveDispatched adds to the dispatched set for a posted row
dispatchedKeyOf(sr) == ToUpperCase(makeDispatchKey(sr.SO_No, sr.Customer, sr.Item, sr.Color))

\* the keys handleSaveDispatched deletes from selectedColors
clearedColorKeys(selectedRows) ==
  {ToUpperCase(makeDispatchKey(selectedRows[i].SO_No, selectedRows[i].Customer,
                               selectedRows[i].Item, selectedRows[i].Old_Color)) :
     i \in DOMAIN selectedRows}
  \cup {dispatchedKeyOf(selectedRows[i]) : i \in DOMAIN selectedRows}

\* a Save Dispatched button that stays enabled while a request is in flight
saveDisabledIgnoringSaving == selectedCount = 0

\* disabled attribute of the Save Dispatched button
saveDisabled == selectedCount = 0 \/ saving

\* handleSaveDispatched up to its await (it returns before any state change
\* when nothing is selected or no selected row is visible): what the code after the await reads
\* from the closure of the render (rows, selectedUids, selectedRows) goes with
\* the request
handleSaveDispatched ==
  LET selectedUids == checked
      selectedRows == selectedRowsOf(rows, selectedUids, selectedColors, productionQtyByUid)
  IN  /\ selectedUids # {}
      /\ Len(selectedRows) > 0
      /\ saving' = TRUE
      /\ saveReqs' = saveReqs (+) SetToBag({[rows |-> rows, selectedUids |-> selectedUids,
                                              selectedRows |-> selectedRows]})
      /\ UNCHANGED <<rows, total, loading, checked, verifying, dispatchedSet,
                     pendingSet, pendingMap, selectedColors, productionQtyByUid,
                     dispatchTable, verifyTable, channel, cycles, verifyReqs,
                     consoleErrors, savedKeys,
                 awaiting, deliveries>>

ClickSaveDispatched ==
  /\ ~saveDisabled
  /\ handleSaveDispatched

\* POST /api/dispatch answered 2xx: the records are in the warehouse, the
\* handler resumes after the await
SaveDispatchedOk(req) ==
  /\ req \in BagToSet(saveReqs)
  /\ rowsToInsert(req.selectedRows) # {}
  /\ dispatchTable' = dispatchTable \cup rowsToInsert(req.selectedRows)
  /\ rows' = remainingOf(req.rows, req.selectedUids)
  /\ checked' = {}
  /\ total' = decrementTotal(total, Len(req.selectedRows))
  /\ dispatchedSet' = dispatchedSet \cup
        {dispatchedKeyOf(req.selectedRows[i]) : i \in DOMAIN req.selectedRows}
  /\ selectedColors' = MapDel(selectedColors, clearedColorKeys(req.selectedRows))
  /\ productionQtyByUid' = MapDel(productionQtyByUid, req.selectedUids)
  /\ saving' = FALSE
  /\ saveReqs' = saveReqs (-) SetToBag({req})
  /\ savedKeys' = savedKeys \cup submittedKeysOf(req)
  /\ UNCHANGED <<loading, verifying, pendingSet, pendingMap, verifyTable, channel,
                 cycles, verifyReqs, consoleErrors, awaiting, deliveries>>

\* a failure path that drops the selection
SaveDispatchedFailedClearingChecked(req) ==
  /\ req \in BagToSet(saveReqs)
  /\ saving' = FALSE
  /\ checked' = {}
  /\ saveReqs' = saveReqs (-) SetToBag({req})
  /\ consoleErrors' = consoleErrors \cup {"Save dispatched failed"}
  /\ UNCHANGED <<rows, total, loading, verifying, dispatchedSet, pendingSet,
                 pendingMap, selectedColors, productionQtyByUid, dispatchTable,
                 verifyTable, channel, cycles, verifyReqs, savedKeys,
                 awaiting, deliveries>>

\* POST /api/dispatch answered non-2xx, or the request failed: finally only
SaveDispatchedFailed(req) ==
  /\ req \in BagToSet(saveReqs)
  /\ saving' = FALSE
  /\ saveReqs' = saveReqs (-) SetToBag({req})
  /\ consoleErrors' = consoleErrors \cup {"Save dispatched failed"}
  /\ UNCHANGED <<rows, total, loading, checked, verifying, dispatchedSet, pendingSet,
                 pendingMap, selectedColors, productionQtyByUid, dispatchTable,
                 verifyTable, channel, cycles, verifyReqs, savedKeys,
                 awaiting, deliveries>>

(* ------------------------------------------------------------------------ *)
(* Request verification                                                     *)
(* ------------------------------------------------------------------------ *)

\* the row sent to /api/verify for a visible row
verifyRowOf(r, sc) ==
  LET key == rowKeyFrom(r)
  IN  [SO_No |-> OrEmpty(r.SO_No), Customer |-> r.Customer, Item |-> r.Item,
       Color |-> r.Color,
       New_Color |-> Coalesce(IF key \in DOMAIN sc THEN sc[key] ELSE NULL, r.New_Color)]

\* Boolean(selectedColors[key])
hasSelectedColor(sc, key) == key \in DOMAIN sc /\ sc[key] # <<>>

\* the visible rows that are checked or have a selected colour
rowsToSendOf(rws, selectedUids, sc) ==
  LET sel == SelectSeq(rws, LAMBDA r : r.uid \in selectedUids
                                       \/ hasSelectedColor(sc, rowKeyFrom(r)))
  IN  [i \in DOMAIN sel |-> verifyRowOf(sel[i], sc)]

keysToAddOf(rowsToSend) ==
  {ToUpperCase(makeDispatchKey(rowsToSend[i].SO_No, rowsToSend[i].Customer,
                               rowsToSend[i].Item, rowsToSend[i].Color)) :
     i \in DOMAIN rowsToSend}

\* rows.find((r) => key of r === key)
findRow(rws, key) ==
  rws[CHOOSE i \in DOMAIN rws :
        rowKeyFrom(rws[i]) = key /\ \A j \in DOMAIN rws : rowKeyFrom(rws[j]) = key => i <= j]

\* disabled attribute of the Verify from customer button
verifyDisabled == (selectedCount = 0 /\ DOMAIN selectedColors = {}) \/ verifying

\* handleVerifySelected up to its await (it returns before any state change
\* when there is no row to send)
handleVerifySelected ==
  LET rowsToSend == rowsToSendOf(rows, checked, selectedColors)
  IN  /\ Len(rowsToSend) > 0
      /\ verifying' = TRUE
      /\ verifyReqs' = verifyReqs (+) SetToBag({[rows |-> rows, rowsToSend |-> rowsToSend]})
      /\ UNCHANGED <<rows, total, loading, checked, saving, dispatchedSet,
                     pendingSet, pendingMap, selectedColors, productionQtyByUid,
                     dispatchTable, verifyTable, channel, cycles, saveReqs,
                     consoleErrors, savedKeys,
                 awaiting, deliveries>>

ClickVerifySelected ==
  /\ ~verifyDisabled
  /\ handleVerifySelected

\* POST /api/verify answered 2xx: pending records are in the warehouse, the
\* handler resumes after the await; setPendingMap makes a new object, so the
\* load effect re-runs
VerifySelectedOk(req) ==
  /\ req \in BagToSet(verifyReqs)
  /\ LET keysToAdd == keysToAddOf(req.rowsToSend)
         found == {k \in keysToAdd : k \in rowKeys(req.rows)}
         nextMap == [k \in (DOMAIN pendingMap) \cup found |->
                       IF k \in found THEN findRow(req.rows, k) ELSE pendingMap[k]]
     IN  /\ verifyTable' = verifyTable \cup
               {buildWhitelistedRow(req.rowsToSend[i]) : i \in DOMAIN req.rowsToSend}
         /\ pendingMap' = nextMap
         /\ pendingSet' = pendingSet \cup keysToAdd
         /\ rows' = SelectSeq(rows, LAMBDA r : rowKeyFrom(r) \notin keysToAdd)
         /\ selectedColors' = MapDel(selectedColors, keysToAdd)
         /\ checked' = {}
         /\ total' = decrementTotal(total, Len(req.rowsToSend))
         /\ verifying' = FALSE
         /\ verifyReqs' = verifyReqs (-) SetToBag({req})
         /\ awaiting' = awaiting \cup
               {VerifyRecKey(buildWhitelistedRow(req.rowsToSend[i])) : i \in DOMAIN req.rowsToSend}
         /\ restartLoad(nextMap)
  /\ UNCHANGED <<saving, dispatchedSet, productionQtyByUid, dispatchTable, channel,
                 saveReqs, consoleErrors, savedKeys, deliveries>>

\* a failure path that has moved the keys to the pending set before the answer
VerifySelectedFailedAfterOptimisticUpdate(req) ==
  /\ req \in BagToSet(verifyReqs)
  /\ verifying' = FALSE
  /\ pendingSet' = pendingSet \cup keysToAddOf(req.rowsToSend)
  /\ verifyReqs' = verifyReqs (-) SetToBag({req})
  /\ consoleErrors' = consoleErrors \cup {"Verify (request) API failed"}
  /\ UNCHANGED <<rows, total, loading, checked, saving, dispatchedSet,
                 pendingMap, selectedColors, productionQtyByUid, dispatchTable,
                 verifyTable, channel, cycles, saveReqs, savedKeys,
                 awaiting, deliveries>>

\* POST /api/verify answered non-2xx, or the request failed: finally only
VerifySelectedFailed(req) ==
  /\ req \in BagToSet(verifyReqs)
  /\ verifying' = FALSE
  /\ verifyReqs' = verifyReqs (-) SetToBag({req})
  /\ consoleErrors' = consoleErrors \cup {"Verify (request) API failed"}
  /\ UNCHANGED <<rows, total, loading, checked, saving, dispatchedSet, pendingSet,
                 pendingMap, selectedColors, productionQtyByUid, dispatchTable,
                 verifyTable, channel, cycles, saveReqs, savedKeys,
                 awaiting, deliveries>>

(* ------------------------------------------------------------------------ *)
(* Confirmation in the verify page and the verified:confirmed listener      *)
(* ------------------------------------------------------------------------ *)

\* handleConfirm of the verify page for a record it shows as pending: the
\* confirm route stores a record with a timestamp and the stored row is
\* posted on the channel
ConfirmVerification(rec) ==
  /\ rec \in verifyTable
  /\ \A x \in verifyTable : VerifyRecKey(x) = VerifyRecKey(rec) => ~x.verified_at
  /\ verifyTable' = verifyTable \cup {buildWhitelistedRowForConfirm(rec)}
  /\ channel' = channel \cup {buildWhitelistedRowForConfirm(rec)}
  /\ awaiting' = awaiting \ {VerifyRecKey(rec)}
  /\ UNCHANGED <<rows, total, loading, checked, saving, verifying, dispatchedSet,
                 pendingSet, pendingMap, selectedColors, productionQtyByUid,
                 dispatchTable, cycles, saveReqs, verifyReqs,
                 consoleErrors, savedKeys, deliveries>>

\* the SalesOrderRow the listener builds from the incoming record
newRowOf(incoming, uid) ==
  [SO_No |-> OrEmpty(incoming.SO_No), Customer |-> OrEmpty(incoming.Customer),
   Item |-> OrEmpty(incoming.Item), Color |-> OrEmpty(incoming.Color),
   New_Color |-> incoming.New_Color, hasQty |-> FALSE, OrderQty |-> 0,
   hasDate |-> FALSE, so_date |-> 0, Status |-> "undefined",
   hasStock |-> FALSE, Stock |-> 0, StockByColor |-> {},
   uid |-> uid]

\* key of the incoming record, as the listener computes it
confirmedKeyOf(incoming) ==
  ToUpperCase(makeDispatchKey(OrEmpty(incoming.SO_No), OrEmpty(incoming.Customer),
                              OrEmpty(incoming.Item), OrEmpty(incoming.Color)))

\* a listener that inserts the row without looking for it
rowsAfterConfirmedAlwaysInserting(prev, incoming, uid) ==
  <<newRowOf(incoming, uid)>> \o prev

\* setRows((prev) => exists ? prev : [withUid, ...prev])
rowsAfterConfirmed(prev, incoming, uid) ==
  IF confirmedKeyOf(incoming) \in rowKeys(prev) THEN prev
  ELSE <<newRowOf(incoming, uid)>> \o prev

\* the message listener of the sales-orders channel (the window-event
\* fallback has the same body); delivery is at least once; setPendingMap
\* makes a new object, so the load effect re-runs
OnVerifiedConfirmed(incoming) ==
  /\ incoming \in channel
  /\ LET key == confirmedKeyOf(incoming)
         nextMap == MapDel(pendingMap, {key})
     IN  /\ pendingSet' = pendingSet \ {key}
         /\ pendingMap' = nextMap
         /\ rows' = rowsAfterConfirmed(rows, incoming, <<Len(cycles) + 1, 0>>)
         /\ selectedColors' =
               IF incoming.New_Color # NULL /\ incoming.New_Color # <<>>
                 THEN MapPut(selectedColors, key, incoming.New_Color)
                 ELSE selectedColors
         /\ restartLoad(nextMap)
  /\ deliveries' = deliveries + 1
  /\ UNCHANGED <<total, checked, saving, verifying, dispatchedSet, productionQtyByUid,
                 dispatchTable, verifyTable, channel, saveReqs, verifyReqs,
                 consoleErrors, savedKeys, awaiting>>

(* ------------------------------------------------------------------------ *)
(* Cancel order (the table variant with row actions)                        *)
(* ------------------------------------------------------------------------ *)

\* what the cancel dialog and its handler leave alone, besides events
cancelFrame ==
  <<total, loading, checked, saving, verifying, dispatchedSet, pendingSet,
    pendingMap, selectedColors, productionQtyByUid, dispatchTable, verifyTable,
    channel, cycles, saveReqs, verifyReqs, savedKeys, orderPage, orderCount,
    stockTable,
    filters, awaiting, deliveries, earlyReturns, draft, groupBy, call, result>>

\* RowActions: the Cancel Order item of a row that is not cancelled calls
\* onCancel(row), which is setCancelDialogOrder(row); the dialog is modal
OpenCancelDialog(i) ==
  /\ ~loading
  /\ i \in DOMAIN rows
  /\ cancelDialogOrder = <<>>
  /\ rows[i].Status # "Cancelled"
  /\ cancelDialogOrder' = <<rows[i]>>
  /\ UNCHANGED <<rows, cancelReqs, consoleErrors>>
  /\ UNCHANGED cancelFrame

\* Keep Order / onOpenChange: setCancelDialogOrder(null)
CloseCancelDialog ==
  /\ cancelDialogOrder # <<>>
  /\ cancelDialogOrder' = <<>>
  /\ UNCHANGED <<rows, cancelReqs, consoleErrors>>
  /\ UNCHANGED cancelFrame

\* handleCancelOrder up to its await (it returns when the order has no
\* number): POST /api/sales-orders/cancel { orderNo }
handleCancelOrder(order) ==
  /\ OrEmpty(order.SO_No) # <<>>
  /\ cancelReqs' = cancelReqs (+) SetToBag({[orderNo |-> order.SO_No]})
  /\ UNCHANGED <<rows, cancelDialogOrder, consoleErrors>>
  /\ UNCHANGED cancelFrame

\* the Cancel Order button of the dialog: onConfirm
ConfirmCancelOrder ==
  /\ cancelDialogOrder # <<>>
  /\ handleCancelOrder(cancelDialogOrder[1])

\* a handler that takes the rows of the cancelled order out of the table
CancelOrderOkRemovingRows(req) ==
  /\ req \in BagToSet(cancelReqs)
  /\ rows' = SelectSeq(rows, LAMBDA r : r.SO_No # req.orderNo)
  /\ cancelDialogOrder' = <<>>
  /\ cancelReqs' = cancelReqs (-) SetToBag({req})
  /\ UNCHANGED consoleErrors
  /\ UNCHANGED cancelFrame

\* the cancel boundary answered 2xx: the rows of the order are marked
\* cancelled in place, the dialog is closed
CancelOrderOk(req) ==
  /\ req \in BagToSet(cancelReqs)
  /\ rows' = [i \in DOMAIN rows |->
                IF rows[i].SO_No = req.orderNo
                  THEN [rows[i] EXCEPT !.Status = "Cancelled"] ELSE rows[i]]
  /\ cancelDialogOrder' = <<>>
  /\ cancelReqs' = cancelReqs (-) SetToBag({req})
  /\ UNCHANGED consoleErrors
  /\ UNCHANGED cancelFrame

\* the cancel boundary answered non-2xx, or the request failed: console.error
CancelOrderFailed(req) ==
  /\ req \in BagToSet(cancelReqs)
  /\ cancelReqs' = cancelReqs (-) SetToBag({req})
  /\ consoleErrors' = consoleErrors \cup {"Error cancelling order"}
  /\ UNCHANGED <<rows, cancelDialogOrder>>
  /\ UNCHANGED cancelFrame

(* ------------------------------------------------------------------------ *)
(* Handlers invoked when they have nothing to send                          *)
(* ------------------------------------------------------------------------ *)

\* a handler that sends whatever is selected, nothing included
SaveDispatchedSendsUnchecked ==
  /\ checked = {}
  /\ saving' = TRUE
  /\ saveReqs' = saveReqs (+) SetToBag({[rows |-> rows, selectedUids |-> checked,
                                          selectedRows |-> <<>>]})
  /\ earlyReturns' = earlyReturns + 1
  /\ UNCHANGED <<rows, total, loading, checked, verifying, dispatchedSet,
                 pendingSet, pendingMap, selectedColors, productionQtyByUid,
                 dispatchTable, verifyTable, channel, cycles, verifyReqs,
                 consoleErrors, savedKeys, awaiting, deliveries>>

\* handleSaveDispatched invoked with no row checked:
\* if (selectedUids.length === 0) return
SaveDispatchedReturnsEarly ==
  /\ checked = {}
  /\ earlyReturns' = earlyReturns + 1
  /\ UNCHANGED <<rows, total, loading, checked, saving, verifying, dispatchedSet,
                 pendingSet, pendingMap, selectedColors, productionQtyByUid,
                 dispatchTable, verifyTable, channel, cycles, saveReqs, verifyReqs,
                 consoleErrors, savedKeys, awaiting, deliveries>>

(* ------------------------------------------------------------------------ *)
(* Specification                                                            *)
(* ------------------------------------------------------------------------ *)

\* an event from outside / a step of the program itself
\* what a step of the order table leaves alone
tableStep ==
  UNCHANGED <<orderPage, orderCount, stockTable, filters, cancelDialogOrder,
              cancelReqs, earlyReturns, draft, groupBy, call, result>>

outsideEvent == events < MaxEvents /\ events' = events + 1 /\ tableStep
programStep == UNCHANGED events /\ tableStep

Next ==
  \/ programStep /\ \E c \in DOMAIN cycles : LoadAborted(c)
  \/ programStep /\ \E c \in DOMAIN cycles, ok \in BOOLEAN : LoadKeysDone(c, ok)
  \/ programStep /\ \E c \in DOMAIN cycles, ok \in BOOLEAN : LoadVerifyDone(c, ok)
  \/ programStep /\ \E c \in DOMAIN cycles : LoadOrdersDone(c)
  \/ programStep /\ \E c \in DOMAIN cycles : LoadOrdersNotOk(c)
  \/ programStep /\ \E c \in DOMAIN cycles : LoadOrdersError(c)
  \/ programStep /\ \E c \in DOMAIN cycles, ok \in BOOLEAN : LoadStockDone(c, ok)
  \/ outsideEvent /\ FiltersChanged
  \/ outsideEvent /\ \E i \in DOMAIN rows : ToggleRowChecked(i)
  \/ outsideEvent /\ \E i \in DOMAIN rows : \E color \in rows[i].StockByColor :
                        ToggleSelectColor(i, color)
  \/ outsideEvent /\ \E i \in DOMAIN rows : SetProductionQty(i)
  \/ outsideEvent /\ ClickSaveDispatched
  \/ programStep /\ \E req \in BagToSet(saveReqs) : SaveDispatchedOk(req)
  \/ programStep /\ \E req \in BagToSet(saveReqs) : SaveDispatchedFailed(req)
  \/ outsideEvent /\ ClickVerifySelected
  \/ programStep /\ \E req \in BagToSet(verifyReqs) : VerifySelectedOk(req)
  \/ programStep /\ \E req \in BagToSet(verifyReqs) : VerifySelectedFailed(req)
  \/ outsideEvent /\ \E rec \in verifyTable : ConfirmVerification(rec)
  \/ outsideEvent /\ \E incoming \in channel : OnVerifiedConfirmed(incoming)

Spec == Init /\ [][Next]_vars

\* the rows the first cycle publishes for the fixture
LoadedRows ==
  LET rws == rowsWithUidOf(1, OrderPage, {})
  IN  finalRowsOf(filteredRowsOf(sortRows(
        withStock(rws, StockBatchPOST(StockRows, stockItemKeys(rws))))), NoSelection)

\* a page that holds two rows of one order and a row of another order
ActionPage ==
  OrderPage \o
  << [SO_No |-> <<"t">>, Customer |-> <<"A", "c">>, Item |-> <<"i", "t">>,
      Color |-> <<"r">>, hasQty |-> TRUE, OrderQty |-> 1,
      hasDate |-> TRUE, so_date |-> 3, Status |-> "Active"] >>

\* what the first cycle publishes of that page
LoadedActionRows ==
  LET rws == rowsWithUidOf(1, ActionPage, {})
  IN  finalRowsOf(filteredRowsOf(sortRows(
        withStock(rws, StockBatchPOST(StockRows, stockItemKeys(rws))))), NoSelection)

\* the table at rest after its first cycle
InitLoaded ==
  /\ rows = LoadedActionRows
  /\ total = computedTotalOf(Len(ActionPage), Len(ActionPage),
                             Len(LoadedActionRows), Len(LoadedActionRows))
  /\ loading = FALSE
  /\ checked = {}
  /\ saving = FALSE
  /\ verifying = FALSE
  /\ dispatchedSet = {}
  /\ pendingSet = {}
  /\ pendingMap = EmptyMap
  /\ selectedColors = EmptyMap
  /\ productionQtyByUid = EmptyMap
  /\ dispatchTable = {}
  /\ verifyTable = {}
  /\ channel = {}
  /\ cycles = <<DoneCycle>>
  /\ saveReqs = EmptyBag
  /\ verifyReqs = EmptyBag
  /\ consoleErrors = {}
  /\ savedKeys = {}
  /\ events = 0
  /\ orderPage = ActionPage
  /\ orderCount = Len(ActionPage)
  /\ stockTable = StockRows
  /\ filters = NoSelection
  /\ awaiting = {}
  /\ deliveries = 0
  /\ cancelDialogOrder = <<>>
  /\ cancelReqs = EmptyBag
  /\ earlyReturns = 0
  /\ draft = InitialDraft
  /\ groupBy = InitialGroupBy
  /\ call = <<>>
  /\ result = <<>>

\* the verification record an earlier session stored for the first row of
\* the page, and the record the confirm route stored for it
PendingRecord == buildWhitelistedRow(verifyRowOf(LoadedRows[1], EmptyMap))
ConfirmedRecord == buildWhitelistedRowForConfirm(PendingRecord)

\* what earlier sessions left in the verification table: a request, or a
\* request, its confirmation and a second request for the same row
VerifyHistories ==
  { [verifyTable |-> {PendingRecord}, awaiting |-> {VerifyRecKey(PendingRecord)}],
    [verifyTable |-> {PendingRecord, ConfirmedRecord},
     awaiting |-> {VerifyRecKey(PendingRecord)}] }

\* a fresh session against a warehouse earlier sessions have written
InitFresh ==
  /\ InitSession
  /\ call = <<>>
  /\ dispatchTable = {}
  /\ \E h \in VerifyHistories : verifyTable = h.verifyTable /\ awaiting = h.awaiting
  /\ orderPage = OrderPage
  /\ orderCount = ServerTotal
  /\ stockTable = StockRows
  /\ filters = NoSelection

watchedEvent == events < MaxWatchedEvents /\ events' = events + 1 /\ tableStep

\* the fresh session while the operator only watches the table: its cycles,
\* new filters, confirmations made in the verify page and their deliveries
NextFresh ==
  \/ programStep /\ \E c \in DOMAIN cycles : LoadAborted(c)
  \/ programStep /\ \E c \in DOMAIN cycles, ok \in BOOLEAN : LoadKeysDone(c, ok)
  \/ programStep /\ \E c \in DOMAIN cycles, ok \in BOOLEAN : LoadVerifyDone(c, ok)
  \/ programStep /\ \E c \in DOMAIN cycles : LoadOrdersDone(c)
  \/ programStep /\ \E c \in DOMAIN cycles : LoadOrdersNotOk(c)
  \/ programStep /\ \E c \in DOMAIN cycles : LoadOrdersError(c)
  \/ programStep /\ \E c \in DOMAIN cycles, ok \in BOOLEAN : LoadStockDone(c, ok)
  \/ watchedEvent /\ FiltersChanged
  \/ watchedEvent /\ \E rec \in verifyTable : ConfirmVerification(rec)
  \/ watchedEvent /\ \E incoming \in channel : OnVerifiedConfirmed(incoming)

SpecFresh == InitFresh /\ [][NextFresh]_vars

\* a gesture on the row actions or a direct invocation of a handler
actionEvent == events < MaxEvents /\ events' = events + 1
actionStep == UNCHANGED events

\* what a step of the table's own handlers leaves alone here
handlerStep ==
  UNCHANGED <<orderPage, orderCount, stockTable, filters, cancelDialogOrder, cancelReqs,
              draft, groupBy, call, result>>

\* the loaded table, its row actions and its Save Dispatched handler
NextActions ==
  \/ actionEvent /\ \E i \in DOMAIN rows : OpenCancelDialog(i)
  \/ actionEvent /\ CloseCancelDialog
  \/ actionEvent /\ ConfirmCancelOrder
  \/ actionStep /\ \E req \in BagToSet(cancelReqs) : CancelOrderOk(req)
  \/ actionStep /\ \E req \in BagToSet(cancelReqs) : CancelOrderFailed(req)
  \/ outsideEvent /\ \E i \in DOMAIN rows : ToggleRowChecked(i)
  \/ outsideEvent /\ ClickSaveDispatched
  \/ actionEvent /\ handlerStep /\ SaveDispatchedReturnsEarly
  \/ programStep /\ \E req \in BagToSet(saveReqs) : SaveDispatchedOk(req)
  \/ programStep /\ \E req \in BagToSet(saveReqs) : SaveDispatchedFailed(req)

(* ------------------------------------------------------------------------ *)
(* One cycle over drawn warehouse contents                                  *)
(* ------------------------------------------------------------------------ *)

\* rows the order query can return: with and without quantity and date
PipelineRows ==
  << [SO_No |-> <<"s">>, Customer |-> <<"A", "c">>, Item |-> <<"i", "t">>,
      Color |-> <<"r">>, hasQty |-> TRUE, OrderQty |-> 2,
      hasDate |-> TRUE, so_date |-> 2, Status |-> "Active"],
     [SO_No |-> <<"s">>, Customer |-> <<"A", "c">>, Item |-> <<"i", "b">>,
      Color |-> <<"b">>, hasQty |-> TRUE, OrderQty |-> 2,
      hasDate |-> TRUE, so_date |-> 1, Status |-> "Active"],
     [SO_No |-> <<"s">>, Customer |-> <<"B", "d">>, Item |-> <<"i", "z">>,
      Color |-> <<"r">>, hasQty |-> TRUE, OrderQty |-> 2,
      hasDate |-> FALSE, so_date |-> 0, Status |-> "Active"],
     [SO_No |-> <<"s">>, Customer |-> <<"B", "d">>, Item |-> <<"i", "t">>,
      Color |-> <<"b">>, hasQty |-> FALSE, OrderQty |-> 0,
      hasDate |-> TRUE, so_date |-> 1, Status |-> "Active"] >>

\* the pages: up to MaxPageLen different rows, in any order
PipelinePages ==
  {[i \in DOMAIN ix |-> PipelineRows[ix[i]]] :
     ix \in {q \in UNION {[1..n -> DOMAIN PipelineRows] : n \in 1..MaxPageLen} :
               \A i, j \in DOMAIN q : i # j => q[i] # q[j]}}

StockRow(item, color, cs) ==
  [normalized_item |-> item, Color |-> color, Closing_Stock |-> cs]

\* contents of the stock table: none; a positive stock; a value that is no
\* number beside a stock; a zero and a numeric string; stocks that cancel
\* out; a null value
PipelineStocks ==
  { <<>>,
    <<StockRow(<<"i", "t">>, <<"b">>, JsonNumber(3))>>,
    <<StockRow(<<"i", "t">>, <<"b">>, JsonString(<<"x">>)),
      StockRow(<<"i", "b">>, <<"b">>, JsonNumber(1))>>,
    <<StockRow(<<"i", "t">>, <<"b">>, JsonNumber(0)),
      StockRow(<<"i", "b">>, <<"b">>, JsonString(<<" ", "2">>))>>,
    <<StockRow(<<"i", "t">>, <<"r">>, JsonNumber(2)),
      StockRow(<<"i", "t">>, <<"b">>, JsonNumber(0 - 2)),
      StockRow(<<"i", "z">>, <<"r">>, JsonNumber(1))>>,
    <<StockRow(<<"i", "b">>, <<"b">>, JsonNull),
      StockRow(<<"i", "b">>, <<"r">>, JsonNumber(1)),
      StockRow(<<"i", "z">>, <<"r">>, JsonNumber(2)),
      StockRow(<<"i", "t">>, <<"b">>, JsonNumber(1))>> }

\* what earlier sessions stored: the first row dispatched, a verification of
\* the second row requested
PipelineDispatched == {{}, rowsToInsert(<<PipelineRows[1]>>)}
PipelineVerify ==
  {{}, {buildWhitelistedRow([SO_No |-> PipelineRows[2].SO_No,
                             Customer |-> PipelineRows[2].Customer,
                             Item |-> PipelineRows[2].Item,
                             Color |-> PipelineRows[2].Color,
                             New_Color |-> NULL])}}

\* the customer / item selections of the filter bar
PipelineFilters ==
  { NoSelection,
    [customers |-> {<<"A", "c">>}, items |-> {}],
    [customers |-> {}, items |-> {<<"I", "T">>}] }

\* a fresh session against drawn warehouse contents; the count query counts
\* more rows than the page holds, or fewer after a deletion between the queries
InitPipeline ==
  /\ InitSession
  /\ call = <<>>
  /\ dispatchTable \in PipelineDispatched
  /\ verifyTable \in PipelineVerify
  /\ awaiting = {VerifyRecKey(rec) : rec \in verifyTable}
  /\ orderPage \in PipelinePages
  /\ orderCount \in {1, Len(orderPage) + 2}
  /\ stockTable \in PipelineStocks
  /\ filters \in PipelineFilters

\* the first cycle of that session, nothing else happening
NextPipeline ==
  \/ programStep /\ \E c \in DOMAIN cycles, ok \in BOOLEAN : LoadKeysDone(c, ok)
  \/ programStep /\ \E c \in DOMAIN cycles, ok \in BOOLEAN : LoadVerifyDone(c, ok)
  \/ programStep /\ \E c \in DOMAIN cycles : LoadOrdersDone(c)
  \/ programStep /\ \E c \in DOMAIN cycles : LoadOrdersNotOk(c)
  \/ programStep /\ \E c \in DOMAIN cycles : LoadOrdersError(c)
  \/ programStep /\ \E c \in DOMAIN cycles, ok \in BOOLEAN : LoadStockDone(c, ok)

SpecPipeline == InitPipeline /\ [][NextPipeline]_vars


(* ------------------------------------------------------------------------ *)
(* useSalesFilters: the draft and the applied filters                       *)
(* ------------------------------------------------------------------------ *)

\* what the handlers of the hook leave alone
hookFrame ==
  <<rows, total, loading, checked, saving, verifying, dispatchedSet, pendingSet,
    pendingMap, selectedColors, productionQtyByUid, dispatchTable, verifyTable,
    channel, cycles, saveReqs, verifyReqs, consoleErrors, savedKeys,
    orderPage, orderCount, stockTable, awaiting, deliveries, cancelDialogOrder,
    cancelReqs, earlyReturns, result>>

\* Array.from(new Set(seq)): the first occurrence of every element, in order
RECURSIVE Dedup(_)
Dedup(seq) ==
  IF seq = <<>> THEN <<>>
  ELSE LET init == Dedup(SubSeq(seq, 1, Len(seq) - 1))
       IN  IF seq[Len(seq)] \in SeqToSet(init) THEN init
           ELSE Append(init, seq[Len(seq)])

\* a handler that also writes the applied filters
addTokenApplied(token) ==
  /\ draft' = [draft EXCEPT !.tokens = Dedup(Append(@, token))]
  /\ filters' = [filters EXCEPT !.tokens = Dedup(Append(draft.tokens, token))]
  /\ call' = <<"addToken", token>>
  /\ UNCHANGED groupBy
  /\ UNCHANGED hookFrame

addToken(token) ==
  /\ draft' = [draft EXCEPT !.tokens = Dedup(Append(@, token))]
  /\ call' = <<"addToken", token>>
  /\ UNCHANGED <<filters, groupBy>>
  /\ UNCHANGED hookFrame

removeToken(token) ==
  /\ draft' = [draft EXCEPT !.tokens = SelectSeq(@, LAMBDA t : t # token)]
  /\ call' = <<"removeToken", token>>
  /\ UNCHANGED <<filters, groupBy>>
  /\ UNCHANGED hookFrame

\* a handler that empties the tokens of the draft only
clearTokensOfDraft ==
  /\ draft' = [draft EXCEPT !.tokens = <<>>]
  /\ call' = <<"clearTokens">>
  /\ UNCHANGED <<filters, groupBy>>
  /\ UNCHANGED hookFrame

clearTokens ==
  /\ draft' = [draft EXCEPT !.tokens = <<>>]
  /\ filters' = [filters EXCEPT !.tokens = <<>>]
  /\ call' = <<"clearTokens">>
  /\ UNCHANGED groupBy
  /\ UNCHANGED hookFrame

clearDates ==
  /\ draft' = [draft EXCEPT !.startDate = "", !.endDate = ""]
  /\ filters' = [filters EXCEPT !.startDate = "", !.endDate = ""]
  /\ call' = <<"clearDates">>
  /\ UNCHANGED groupBy
  /\ UNCHANGED hookFrame

clearAll ==
  /\ filters' = InitialFilters
  /\ draft' = InitialDraft
  /\ groupBy' = <<"Customer">>
  /\ call' = <<"clearAll">>
  /\ UNCHANGED hookFrame

\* apply closes over the draft of the last render; every handler runs in an
\* event of its own, so that is the draft as it is
apply ==
  /\ filters' = [filters EXCEPT !.tokens = draft.tokens,
                                !.startDate = draft.startDate,
                                !.endDate = draft.endDate,
                                !.limit = draft.limit,
                                !.customers = draft.customers,
                                !.items = draft.items]
  /\ call' = <<"apply">>
  /\ UNCHANGED <<draft, groupBy>>
  /\ UNCHANGED hookFrame

\* the selected options in the order of GROUPABLE_OPTIONS, Customer when none
onGroupChange(selected) ==
  /\ groupBy' = LET ordered == SelectSeq(GROUPABLE_OPTIONS, LAMBDA opt : opt \in selected)
                IN  IF ordered = <<>> THEN <<"Customer">> ELSE ordered
  /\ call' = <<"onGroupChange", selected>>
  /\ UNCHANGED <<filters, draft>>
  /\ UNCHANGED hookFrame

onDateChange(v) ==
  /\ draft' = [draft EXCEPT !.startDate = v.startDate, !.endDate = v.endDate]
  /\ call' = <<"onDateChange", v>>
  /\ UNCHANGED <<filters, groupBy>>
  /\ UNCHANGED hookFrame

onCustomersChange(selected) ==
  /\ draft' = [draft EXCEPT !.customers = selected]
  /\ call' = <<"onCustomersChange", selected>>
  /\ UNCHANGED <<filters, groupBy>>
  /\ UNCHANGED hookFrame

onItemsChange(selected) ==
  /\ draft' = [draft EXCEPT !.items = selected]
  /\ call' = <<"onItemsChange", selected>>
  /\ UNCHANGED <<filters, groupBy>>
  /\ UNCHANGED hookFrame

\* what the operator can enter in the filter bar
TokenInputs == {"a", "b"}
DateInputs == {[startDate |-> "2024-01-01", endDate |-> "2024-01-31"],
               [startDate |-> "2024-02-01", endDate |-> ""]}
CustomerInputs == {<<>>, <<"Ac">>}
ItemInputs == {<<>>, <<"it">>}
GroupInputs == {{}, {"Status"}, {"Item", "Customer"}}

\* the page as it mounts
InitFilters ==
  /\ InitSession
  /\ call = <<>>
  /\ dispatchTable = {}
  /\ verifyTable = {}
  /\ awaiting = {}
  /\ orderPage = OrderPage
  /\ orderCount = ServerTotal
  /\ stockTable = StockRows
  /\ filters = InitialFilters

\* a gesture on the filter bar
barEvent == events < MaxBarEvents /\ events' = events + 1

NextFilters ==
  \/ barEvent /\ \E token \in TokenInputs : addToken(token)
  \/ barEvent /\ \E token \in TokenInputs : removeToken(token)
  \/ barEvent /\ clearTokens
  \/ barEvent /\ clearDates
  \/ barEvent /\ clearAll
  \/ barEvent /\ apply
  \/ barEvent /\ \E selected \in GroupInputs : onGroupChange(selected)
  \/ barEvent /\ \E v \in DateInputs : onDateChange(v)
  \/ barEvent /\ \E selected \in CustomerInputs : onCustomersChange(selected)
  \/ barEvent /\ \E selected \in ItemInputs : onItemsChange(selected)

SpecFilters == InitFilters /\ [][NextFilters]_vars

(* ------------------------------------------------------------------------ *)
(* The composite key, as a function of the four fields                      *)
(* ------------------------------------------------------------------------ *)

\* values of a field of an order row: with letters of either case, with
\* whitespace around and inside, with a bracketed suffix, with the delimiter
\* of the key, with an opening bracket that is never closed, and null
KeyFields ==
  { <<"a", " ", "b">>,
    <<"A", " ", "B">>,
    <<" ", "a", " ", "b", " ">>,
    <<"a", " ", " ", "b">>,
    <<"a", " ", "b", " ", "[", "c", "]">>,
    <<"a", " ", "[", "b">>,
    <<"a">>,
    <<"a", "|", "b">>,
    <<"b", "|", "a">>,
    NULL }

\* (SO_No, Customer, Item, Color) of a row
KeyTuples ==
  { <<so, customer, item, color>> :
      so \in KeyFields, customer \in KeyFields,
      item \in {<<"i", "t">>}, color \in {<<"r">>, <<"R", " ">>} }

\* the normalized fields of a tuple
normalizedFields(t) == [i \in 1..4 |-> normalizeFieldForKey(t[i])]

\* what the evaluation of a function of its arguments leaves alone
pureFrame ==
  <<rows, total, loading, checked, saving, verifying, dispatchedSet, pendingSet,
    pendingMap, selectedColors, productionQtyByUid, dispatchTable, verifyTable,
    channel, cycles, saveReqs, verifyReqs, consoleErrors, savedKeys, events,
    orderPage, orderCount, stockTable, filters, awaiting, deliveries,
    cancelDialogOrder, cancelReqs, earlyReturns, draft, groupBy>>

\* two rows are given; nothing is computed yet
InitKeys ==
  /\ InitSession
  /\ call \in {<<"key", t, u>> : t \in KeyTuples, u \in KeyTuples}
  /\ dispatchTable = {}
  /\ verifyTable = {}
  /\ awaiting = {}
  /\ orderPage = OrderPage
  /\ orderCount = ServerTotal
  /\ stockTable = StockRows
  /\ filters = InitialFilters

\* the table's key of both rows
makeDispatchKeyCall ==
  /\ result = <<>>
  /\ result' = << "makeDispatchKey",
                  makeDispatchKey(call[2][1], call[2][2], call[2][3], call[2][4]),
                  makeDispatchKey(call[3][1], call[3][2], call[3][3], call[3][4]) >>
  /\ UNCHANGED call
  /\ UNCHANGED pureFrame

\* the verify route's key of both rows
makeGroupKeyCall ==
  /\ result = <<>>
  /\ result' = << "makeGroupKey",
                  makeGroupKey(call[2][1], call[2][2], call[2][3], call[2][4]),
                  makeGroupKey(call[3][1], call[3][2], call[3][3], call[3][4]) >>
  /\ UNCHANGED call
  /\ UNCHANGED pureFrame

NextKeys ==
  \/ makeDispatchKeyCall
  \/ makeGroupKeyCall

SpecKeys == InitKeys /\ [][NextKeys]_vars

(* ------------------------------------------------------------------------ *)
(* limit and offset of the list routes                                      *)
(* ------------------------------------------------------------------------ *)

\* a JavaScript number: NaN, an infinity (num is its sign) or the decimal
\* fraction num / den
JsNaN == [kind |-> "NaN", num |-> 0, den |-> 1]
JsInfinity(sign) == [kind |-> "Infinity", num |-> sign, den |-> 1]
JsFinite(n, d) == [kind |-> "finite", num |-> n, den |-> d]
JsInt(n) == JsFinite(n, 1)

RECURSIVE Pow10(_)
Pow10(k) == IF k = 0 THEN 1 ELSE 10 * Pow10(k - 1)

AllDigits(s) == \A i \in DOMAIN s : IsDigit(s[i])

\* an unsigned numeric literal: Infinity, or decimal digits with at most one
\* point and a digit on one side of it at least (literals with an exponent
\* or a radix prefix are not among the inputs)
UnsignedLiteral(t) ==
  IF t = <<"I", "n", "f", "i", "n", "i", "t", "y">> THEN JsInfinity(1)
  ELSE LET dots == {i \in DOMAIN t : t[i] = "."}
       IN  IF dots = {}
             THEN IF t # <<>> /\ AllDigits(t) THEN JsInt(DecimalValue(t)) ELSE JsNaN
           ELSE IF Cardinality(dots) = 1
             THEN LET p == CHOOSE i \in dots : TRUE
                      int == SubSeq(t, 1, p - 1)
                      frac == SubSeq(t, p + 1, Len(t))
                  IN  IF AllDigits(int) /\ AllDigits(frac) /\ Len(int) + Len(frac) > 0
                        THEN JsFinite(DecimalValue(int \o frac), Pow10(Len(frac)))
                        ELSE JsNaN
           ELSE JsNaN

Negate(x) == [x EXCEPT !.num = 0 - @]

\* Number(s) of a string: whitespace around is dropped, the empty string
\* is 0, a literal may carry one sign, anything else is NaN
NumberOf(s) ==
  LET t == Trim(s)
  IN  IF t = <<>> THEN JsInt(0)
      ELSE IF Head(t) = "-" THEN Negate(UnsignedLiteral(Tail(t)))
      ELSE IF Head(t) = "+" THEN UnsignedLiteral(Tail(t))
      ELSE UnsignedLiteral(t)

\* Number.isFinite
NumberIsFinite(x) == x.kind = "finite"

\* a < b of two numbers (false when one of them is NaN)
JsLess(a, b) ==
  /\ a.kind # "NaN" /\ b.kind # "NaN"
  /\ IF a.kind = "finite" /\ b.kind = "finite" THEN a.num * b.den < b.num * a.den
     ELSE IF a.kind = "Infinity" THEN a.num < 0 /\ ~(b.kind = "Infinity" /\ b.num < 0)
     ELSE b.num > 0

\* Math.floor, Math.min, Math.max
MathFloor(x) == IF x.kind = "finite" THEN JsInt(x.num \div x.den) ELSE x

MathMin(a, b) ==
  IF a.kind = "NaN" \/ b.kind = "NaN" THEN JsNaN ELSE IF JsLess(b, a) THEN b ELSE a

MathMax(a, b) ==
  IF a.kind = "NaN" \/ b.kind = "NaN" THEN JsNaN ELSE IF JsLess(a, b) THEN b ELSE a

\* (v ?? d) of an optional query parameter
OrDefault(v, d) == IF v = NULL THEN d ELSE v

\* GET /api/sales-orders: params.limit and params.offset
salesOrdersLimitNum(limit) ==
  LET parsedLimit == NumberOf(OrDefault(limit, <<"2", "5">>))
  IN  IF NumberIsFinite(parsedLimit) /\ JsLess(JsInt(0), parsedLimit)
        THEN MathMin(JsInt(500), MathFloor(parsedLimit))
        ELSE JsInt(25)

salesOrdersOffsetNum(offset) ==
  LET parsedOffset == NumberOf(OrDefault(offset, <<"0">>))
  IN  IF NumberIsFinite(parsedOffset) /\ ~JsLess(parsedOffset, JsInt(0))
        THEN MathFloor(parsedOffset)
        ELSE JsInt(0)

\* GET /api/invoice-details
invoiceDetailsLimitNum(limit) ==
  LET parsedLimit == NumberOf(OrDefault(limit, <<"1", "0", "0">>))
  IN  IF NumberIsFinite(parsedLimit) /\ JsLess(JsInt(0), parsedLimit)
        THEN MathMin(JsInt(1000), MathFloor(parsedLimit))
        ELSE JsInt(100)

invoiceDetailsOffsetNum(offset) ==
  LET parsedOffset == NumberOf(OrDefault(offset, <<"0">>))
  IN  IF NumberIsFinite(parsedOffset) /\ ~JsLess(parsedOffset, JsInt(0))
        THEN MathFloor(parsedOffset)
        ELSE JsInt(0)

\* GET /api/customers
customersLimitNum(limit) ==
  MathMin(JsInt(1000), MathMax(JsInt(1), NumberOf(OrDefault(limit, <<"5", "0">>))))

customersOffsetNum(offset) == MathMax(JsInt(0), NumberOf(OrDefault(offset, <<"0">>)))

\* GET /api/stock
stockLimitNum(limit) ==
  MathMin(JsInt(1000), MathMax(JsInt(1), NumberOf(OrDefault(limit, <<"5", "0">>))))

stockOffsetNum(offset) == MathMax(JsInt(0), NumberOf(OrDefault(offset, <<"0">>)))

\* GET /api/sample-details
sampleDetailsLimitNum(limit) ==
  MathMin(JsInt(1000), NumberOf(OrDefault(limit, <<"1", "0", "0">>)))

sampleDetailsOffsetNum(offset) == MathMax(JsInt(0), NumberOf(OrDefault(offset, <<"0">>)))

\* values of the limit and offset parameters of a request: absent, empty,
\* zero, negative, not a number, fractional, in range, at and above the
\* caps, very large, infinite, with whitespace around
PagingInputs ==
  { NULL,
    <<>>,
    <<"0">>,
    <<"-", "5">>,
    <<"a", "b", "c">>,
    <<"0", ".", "5">>,
    <<"2", ".", "5">>,
    <<"7">>,
    <<" ", "2", "5", " ">>,
    <<"5", "0", "0">>,
    <<"5", "0", "1">>,
    <<"1", "0", "0", "0">>,
    <<"1", "0", "0", "0", "0">>,
    <<"I", "n", "f", "i", "n", "i", "t", "y">> }

\* a request with its limit and offset; no route has answered yet
InitPaging ==
  /\ InitSession
  /\ call \in {<<"GET", limit, offset>> : limit \in PagingInputs, offset \in PagingInputs}
  /\ dispatchTable = {}
  /\ verifyTable = {}
  /\ awaiting = {}
  /\ orderPage = OrderPage
  /\ orderCount = ServerTotal
  /\ stockTable = StockRows
  /\ filters = InitialFilters

\* the parameters a route binds to LIMIT @limit OFFSET @offset
salesOrdersGET ==
  /\ result = <<>>
  /\ result' = <<"sales-orders", salesOrdersLimitNum(call[2]), salesOrdersOffsetNum(call[3])>>
  /\ UNCHANGED call
  /\ UNCHANGED pureFrame

invoiceDetailsGET ==
  /\ result = <<>>
  /\ result' = <<"invoice-details", invoiceDetailsLimitNum(call[2]),
                 invoiceDetailsOffsetNum(call[3])>>
  /\ UNCHANGED call
  /\ UNCHANGED pureFrame

customersGET ==
  /\ result = <<>>
  /\ result' = <<"customers", customersLimitNum(call[2]), customersOffsetNum(call[3])>>
  /\ UNCHANGED call
  /\ UNCHANGED pureFrame

stockGET ==
  /\ result = <<>>
  /\ result' = <<"stock", stockLimitNum(call[2]), stockOffsetNum(call[3])>>
  /\ UNCHANGED call
  /\ UNCHANGED pureFrame

sampleDetailsGET ==
  /\ result = <<>>
  /\ result' = <<"sample-details", sampleDetailsLimitNum(call[2]),
                 sampleDetailsOffsetNum(call[3])>>
  /\ UNCHANGED call
  /\ UNCHANGED pureFrame

NextPaging ==
  \/ salesOrdersGET
  \/ invoiceDetailsGET
  \/ customersGET
  \/ stockGET
  \/ sampleDetailsGET

SpecPaging == InitPaging /\ [][NextPaging]_vars

(* ------------------------------------------------------------------------ *)
(* The selection query of GET /api/sales-orders                             *)
(* ------------------------------------------------------------------------ *)

\* the characters of the order numbers in use, in the order of their code
\* points
CodePoints ==
  <<" ", "-", "0", "1", "2", "3", "4", "5", "6", "7", "8", "9">>
    \o UpperLetters \o <<"[", "]", "_">> \o LowerLetters \o <<"|">>

CodePoint(c) == CHOOSE i \in DOMAIN CodePoints : CodePoints[i] = c

\* a < b of two STRING values
RECURSIVE StringLess(_, _)
StringLess(a, b) ==
  IF b = <<>> THEN FALSE
  ELSE IF a = <<>> THEN TRUE
  ELSE IF Head(a) = Head(b) THEN StringLess(Tail(a), Tail(b))
  ELSE CodePoint(Head(a)) < CodePoint(Head(b))

\* s LIKE p: "%" stands for any run of characters, "_" for one character
\* (no pattern in use holds an escape)
RECURSIVE Like(_, _)
Like(s, p) ==
  IF p = <<>> THEN s = <<>>
  ELSE IF Head(p) = "%" THEN Like(s, Tail(p)) \/ (s # <<>> /\ Like(Tail(s), p))
  ELSE IF Head(p) = "_" THEN s # <<>> /\ Like(Tail(s), Tail(p))
  ELSE s # <<>> /\ Head(s) = Head(p) /\ Like(Tail(s), Tail(p))

\* a row of parsed_sales joined with customers_best: the columns the query
\* reads, so_date_parsed as a day number when SO_Date parses, Rating null
\* when no customer matches
SalesRow(so, customer, item, color, size, rating, hasDate, day, brand, status) ==
  [SO_No |-> so, Customer |-> customer, City |-> NULL, Broker |-> NULL,
   Item |-> item, Color |-> color, Size |-> size, Rating |-> rating,
   hasDate |-> hasDate, so_date |-> day, Brand |-> brand, Status |-> status]

RatingHigh == <<"H", "I", "G", "H">>
RatingHighCash == <<"H", "I", "G", "H", " ", "-", " ", "C", "A", "S", "H">>
RatingCash == <<"C", "A", "S", "H">>
RatingCashNewClient ==
  <<"C", "A", "S", "H", " ", "-", " ", "N", "E", "W", " ", "C", "L", "I", "E", "N", "T">>

StatusPending == <<"P", "e", "n", "d", "i", "n", "g">>

\* rows of the sales table: four rows of one order line (two of them equal
\* in rating and date), another item of the same order, other orders, a
\* cancelled row, a row whose item code is longer than 8 characters, a row
\* without item code, and two rows with "|" in order number or item code
SalesPool ==
  { SalesRow(<<"s", "a">>, <<"C", "c">>, <<"i", "t">>, <<"r">>, <<"S">>,
             RatingHigh, TRUE, 1, <<"x">>, StatusPending),
    SalesRow(<<"s", "a">>, <<"C", "c">>, <<"i", "t">>, <<"r">>, <<"M">>,
             RatingHigh, TRUE, 1, <<"x">>, StatusPending),
    SalesRow(<<"s", "a">>, <<"C", "c">>, <<"I", "t", " ">>, <<"r">>, <<"L">>,
             <<" ", "c", "a", "s", "h">>, TRUE, 1, <<"x">>, StatusPending),
    SalesRow(<<"s", "a">>, <<"C", "c">>, <<"i", "t">>, <<"r">>, <<"X">>,
             RatingHigh, FALSE, 0, <<"x">>, StatusPending),
    SalesRow(<<"s", "a">>, <<"C", "c">>, <<"i", "b">>, <<"r">>, <<"S">>,
             RatingHigh, TRUE, 1, <<"x">>, StatusPending),
    SalesRow(<<"s", "b">>, <<"D", "d", " ", "[", "K", "]">>, <<"i", "t">>, <<"r">>, <<"S">>,
             NULL, TRUE, 2, <<"y">>, <<" ", "P", "E", "N", "D", "I", "N", "G">>),
    SalesRow(<<"S", "0">>, <<"D", "d">>, <<"i", "t">>, NULL, <<"S">>,
             RatingHighCash, TRUE, 3, <<"y">>, StatusPending),
    SalesRow(<<"s", "c">>, <<"C", "c">>, <<"i", "t">>, <<"r">>, <<"S">>,
             RatingCashNewClient, TRUE, 1, <<"x">>,
             <<"C", "a", "n", "c", "e", "l", "l", "e", "d">>),
    SalesRow(<<"s", "c">>, <<"C", "c">>,
             <<"i", "t", "i", "t", "i", "t", "i", "t", "i">>, <<"r">>, <<"S">>,
             RatingCash, TRUE, 1, <<"x">>, StatusPending),
    SalesRow(<<"s", "c">>, <<"C", "c">>, NULL, <<"r">>, <<"S">>,
             RatingCash, TRUE, 1, <<"x">>, StatusPending),
    SalesRow(<<"s", "|", "a">>, <<"C", "c">>, <<"i", "t">>, <<"r">>, <<"S">>,
             RatingCash, TRUE, 1, <<"x">>, StatusPending),
    SalesRow(<<"s">>, <<"C", "c">>, <<"a", "|", "i", "t">>, <<"r">>, <<"S">>,
             RatingCash, TRUE, 1, <<"x">>, StatusPending) }

\* most rows of the sales table
MaxTableRows == 3

SalesTables == {t \in SUBSET SalesPool : Cardinality(t) <= MaxTableRows}

\* a date parameter: absent, or given and parsed by SAFE.PARSE_DATE or not
NoDate == [given |-> FALSE, ok |-> FALSE, day |-> 0]
DateParam(day) == [given |-> TRUE, ok |-> TRUE, day |-> day]
BadDate == [given |-> TRUE, ok |-> FALSE, day |-> 0]

\* the parameters of a request next to tokens, limit and offset
OtherParams(q, brand, city, startDate, endDate, includeColumn, includeValues) ==
  [q |-> q, brand |-> brand, city |-> city, startDate |-> startDate,
   endDate |-> endDate, includeColumn |-> includeColumn,
   includeValues |-> includeValues]

NoOtherParams == OtherParams(NULL, NULL, NULL, NoDate, NoDate, NULL, <<>>)

OtherParamsInputs ==
  { NoOtherParams,
    [NoOtherParams EXCEPT !.q = <<"C", "C">>],
    [NoOtherParams EXCEPT !.brand = <<"x">>],
    [NoOtherParams EXCEPT !.city = <<"c", "c">>],
    [NoOtherParams EXCEPT !.startDate = DateParam(2)],
    [NoOtherParams EXCEPT !.endDate = DateParam(2)],
    [NoOtherParams EXCEPT !.startDate = BadDate],
    [NoOtherParams EXCEPT !.includeColumn = <<"S", "O", "_", "N", "o">>,
                          !.includeValues = << <<"s", "c">> >>],
    [NoOtherParams EXCEPT !.includeColumn = <<"C", "u", "s", "t", "o", "m", "e", "r">>,
                          !.includeValues = << <<"d", "d">> >>],
    [NoOtherParams EXCEPT !.includeColumn = <<"S", "i", "z", "e">>,
                          !.includeValues = << <<"S">> >>] }

\* tokens of a request (none when the parameter is absent)
TokenParams == { <<>>, << <<"a">> >>, << <<"B">> >>, << <<"a">>, <<"b">> >>, << <<"t">>, <<"c">> >> }

PageParams ==
  { [limit |-> NULL, offset |-> NULL],
    [limit |-> <<"1">>, offset |-> NULL],
    [limit |-> <<"1">>, offset |-> <<"1">>] }

OrderRequests ==
  { [tokens |-> tk, other |-> o, page |-> pg] :
      tk \in TokenParams, o \in OtherParamsInputs, pg \in PageParams }

\* paramsIn.x is given and not the empty string
Truthy(v) == v # NULL /\ v # <<>>

\* the text condition of q and of every token
textFilter(ps, text) ==
  LET pattern == ToLowerCase(<<"%">> \o text \o <<"%">>)
  IN  \/ Like(ToLowerCase(OrEmpty(ps.SO_No)), pattern)
      \/ Like(ToLowerCase(OrEmpty(ps.Item)), pattern)
      \/ Like(ToLowerCase(OrEmpty(ps.Customer)), pattern)

\* filters.join(" AND "): one condition for q, one for every token, one for
\* each of brand, city, startDate and endDate that is given
baseFilters(ps, req) ==
  /\ Truthy(req.other.q) => textFilter(ps, req.other.q)
  /\ \A i \in DOMAIN req.tokens : textFilter(ps, req.tokens[i])
  /\ Truthy(req.other.brand) => (ps.Brand # NULL /\ ps.Brand = req.other.brand)
  /\ Truthy(req.other.city)
       => \/ ps.Customer # NULL /\ ToLowerCase(ps.Customer) = ToLowerCase(req.other.city)
          \/ ps.City # NULL /\ ToLowerCase(ps.City) = ToLowerCase(req.other.city)
  /\ req.other.startDate.given
       => (ps.hasDate /\ req.other.startDate.ok /\ ps.so_date >= req.other.startDate.day)
  /\ req.other.endDate.given
       => (ps.hasDate /\ req.other.endDate.ok /\ ps.so_date <= req.other.endDate.day)

itemLengthFilter(ps) == ps.Item # NULL /\ Len(Trim(ps.Item)) <= 8

pendingFilter(ps) ==
  ps.Status # NULL /\ ToUpperCase(Trim(ps.Status)) = <<"P", "E", "N", "D", "I", "N", "G">>

\* LOWER(TRIM(REGEXP_REPLACE(COALESCE(Parent_CustomerCity, ''), r'\s*\[.*?\]', '')))
customer_norm(ps) == ToLowerCase(Trim(StripBrackets(OrEmpty(ps.Customer))))

\* the column a name of ALLOWED_INCLUDE_COLUMNS stands for, as its value in
\* a row; null for a name that is not allowed
includeColumnOf(ps, name) ==
  IF name = <<"S", "O", "_", "N", "o">> THEN ps.SO_No
  ELSE IF name = <<"I", "t", "e", "m", "_", "N", "a", "m", "e", "_", "C", "o", "d", "e">>
    THEN ps.Item
  ELSE IF name = <<"P", "a", "r", "e", "n", "t", "_", "C", "u", "s", "t", "o", "m", "e", "r",
                   "C", "i", "t", "y">>
    THEN ps.Customer
  ELSE IF name = <<"C", "o", "l", "o", "r", "_", "C", "o", "d", "e">> THEN ps.Color
  ELSE IF name = <<"B", "r", "o", "k", "e", "r">> THEN ps.Broker
  ELSE IF name = <<"C", "u", "s", "t", "o", "m", "e", "r">> THEN customer_norm(ps)
  ELSE NULL

ALLOWED_INCLUDE_COLUMNS ==
  { <<"S", "O", "_", "N", "o">>,
    <<"I", "t", "e", "m", "_", "N", "a", "m", "e", "_", "C", "o", "d", "e">>,
    <<"P", "a", "r", "e", "n", "t", "_", "C", "u", "s", "t", "o", "m", "e", "r",
      "C", "i", "t", "y">>,
    <<"C", "o", "l", "o", "r", "_", "C", "o", "d", "e">>,
    <<"B", "r", "o", "k", "e", "r">>,
    <<"C", "u", "s", "t", "o", "m", "e", "r">> }

\* an include condition is part of the query
hasIncludeCondition(req) ==
  /\ Truthy(req.other.includeColumn)
  /\ req.other.includeValues # <<>>
  /\ req.other.includeColumn \in ALLOWED_INCLUDE_COLUMNS

includeCondition(ps, req) ==
  /\ includeColumnOf(ps, req.other.includeColumn) # NULL
  /\ includeColumnOf(ps, req.other.includeColumn) \in SeqToSet(req.other.includeValues)

\* the WHERE clause of the joined rows
whereClause(ps, req) ==
  \/ baseFilters(ps, req) /\ itemLengthFilter(ps) /\ pendingFilter(ps)
  \/ hasIncludeCondition(req) /\ includeCondition(ps, req)

joinedOf(table, req) == {ps \in table : whereClause(ps, req)}

\* the rating priority that puts CASH first
ratingPriorityCaseCashFirst(Rating) ==
  LET rating == ToUpperCase(Trim(OrEmpty(Rating)))
  IN  IF rating = RatingCash THEN 1
      ELSE IF rating = RatingHighCash THEN 2
      ELSE IF rating = RatingHigh THEN 3
      ELSE IF rating = RatingCashNewClient THEN 4
      ELSE 5

ratingPriorityCase(Rating) ==
  LET rating == ToUpperCase(Trim(OrEmpty(Rating)))
  IN  IF rating = RatingHigh THEN 1
      ELSE IF rating = RatingHighCash THEN 2
      ELSE IF rating = RatingCash THEN 3
      ELSE IF rating = RatingCashNewClient THEN 4
      ELSE 5

\* ORDER BY rating priority ASC, so_date_parsed ASC NULLS LAST,
\* COALESCE(SO_No, '') ASC: a sorts strictly before b
orderedBefore(a, b) ==
  LET pa == ratingPriorityCase(a.Rating)
      pb == ratingPriorityCase(b.Rating)
      sameDate == (a.hasDate = b.hasDate) /\ (a.hasDate => a.so_date = b.so_date)
  IN  \/ pa < pb
      \/ pa = pb /\ a.hasDate /\ (~b.hasDate \/ a.so_date < b.so_date)
      \/ pa = pb /\ sameDate /\ StringLess(OrEmpty(a.SO_No), OrEmpty(b.SO_No))

\* PARTITION BY COALESCE(SO_No, ''), LOWER(TRIM(Item)), COALESCE(Color, '')
partitionOf(r) ==
  << OrEmpty(r.SO_No),
     IF r.Item = NULL THEN NULL ELSE ToLowerCase(Trim(r.Item)),
     OrEmpty(r.Color) >>

\* the rows that ROW_NUMBER() can number 1 in their partition: those with no
\* row of the partition ordered before them
firstOfPartition(joined) ==
  {r \in joined :
     \A o \in joined : partitionOf(o) = partitionOf(r) => ~orderedBefore(o, r)}

\* deduped WHERE rn = 1: one row of every partition, numbered 1
dedupedOf(joined) ==
  {d \in SUBSET firstOfPartition(joined) :
     \A r \in joined :
       Cardinality({x \in d : partitionOf(x) = partitionOf(r)}) = 1}

\* the orders in which ORDER BY can return a set of rows
orderingsOf(d) ==
  {f \in [1..Cardinality(d) -> d] :
     /\ \A i, j \in DOMAIN f : i # j => f[i] # f[j]
     /\ \A i, j \in DOMAIN f : i < j => ~orderedBefore(f[j], f[i])}

Min(a, b) == IF a <= b THEN a ELSE b

\* LIMIT @limit OFFSET @offset
limitOffset(seq, limit, offset) == SubSeq(seq, offset + 1, Min(Len(seq), offset + limit))

\* what the selection query can return: the joined rows, the rows in order
\* before LIMIT, and the page
selectionResults(table, req) ==
  LET joined == joinedOf(table, req)
      limit == salesOrdersLimitNum(req.page.limit).num
      offset == salesOrdersOffsetNum(req.page.offset).num
  IN  UNION { { <<"sales-orders", joined, ordered, limitOffset(ordered, limit, offset)>> :
                  ordered \in orderingsOf(d) } : d \in dedupedOf(joined) }

\* a table and a request; the query has not run yet
InitQuery ==
  /\ InitSession
  /\ call \in {<<"GET", table, req>> : table \in SalesTables, req \in OrderRequests}
  /\ dispatchTable = {}
  /\ verifyTable = {}
  /\ awaiting = {}
  /\ orderPage = OrderPage
  /\ orderCount = ServerTotal
  /\ stockTable = StockRows
  /\ filters = InitialFilters

\* the warehouse runs the selection query
selectionQuery ==
  /\ result = <<>>
  /\ result' \in selectionResults(call[2], call[3])
  /\ UNCHANGED call
  /\ UNCHANGED pureFrame

\* COUNT(DISTINCT CONCAT(COALESCE(SO_No, ''), '|', LOWER(TRIM(Item_Name_Code)),
\* '|', COALESCE(Color_Code, ''))): CONCAT is NULL for a NULL item code, and
\* COUNT does not count NULL
cntOf(joined) ==
  Cardinality({ OrEmpty(ps.SO_No) \o <<"|">> \o ToLowerCase(Trim(ps.Item))
                  \o <<"|">> \o OrEmpty(ps.Color) :
                ps \in {x \in joined : x.Item # NULL} })

\* the warehouse runs the count query; total is its cnt
countQuery ==
  /\ result = <<>>
  /\ result' = <<"total", joinedOf(call[2], call[3]), cntOf(joinedOf(call[2], call[3]))>>
  /\ UNCHANGED call
  /\ UNCHANGED pureFrame

NextQuery ==
  \/ selectionQuery
  \/ countQuery

SpecQuery == InitQuery /\ [][NextQuery]_vars

(* ------------------------------------------------------------------------ *)
(* GET /api/verify: the records as read, merged by composite key            *)
(* ------------------------------------------------------------------------ *)

\* verified_at of a stored record: null, or a timestamp
NoTimestamp == [kind |-> "null", value |-> 0]
Timestamp(t) == [kind |-> "timestamp", value |-> t]

VerifyRecord(so, customer, item, color, newColor, size, verifiedAt) ==
  [SO_No |-> so, Customer |-> customer, Item |-> item, Color |-> color,
   New_Color |-> newColor, Size |-> size, verified_at |-> verifiedAt]

\* records of verified_sales_orders: five of one composite key, written
\* with different case, whitespace and bracketed suffix, and two of another
VerifyPool ==
  { VerifyRecord(<<"s", "a">>, <<"C", "c">>, <<"i", "t">>, <<"r">>,
                 NULL, <<>>, NoTimestamp),
    VerifyRecord(<<" ", "S", "A">>, <<"C", "c">>, <<"i", "t">>, <<"r">>,
                 <<"b">>, <<" ">>, NoTimestamp),
    VerifyRecord(<<"s", "a">>, <<"c", "c">>, <<"i", "t">>, <<"r">>,
                 <<"c">>, <<"M">>, Timestamp(2)),
    VerifyRecord(<<"s", "a">>, <<"C", "c">>, <<"I", "T">>, <<"r">>,
                 <<" ">>, <<"L">>, Timestamp(1)),
    VerifyRecord(<<"s", "a">>, <<"C", "c", " ", "[", "K", "]">>, <<"i", "t">>, <<"r">>,
                 NULL, NULL, NoTimestamp),
    VerifyRecord(<<"s", "b">>, <<"C", "c">>, <<"i", "t">>, <<"r">>,
                 <<"b">>, <<"S">>, NoTimestamp),
    VerifyRecord(<<"s", "b">>, <<"C", "c">>, <<"i", "t">>, <<"r">>,
                 NULL, <<"S">>, Timestamp(1)) }

\* most records of the table
MaxVerifyRows == 3

VerifyTables == {t \in SUBSET VerifyPool : Cardinality(t) <= MaxVerifyRows}

\* ORDER BY SAFE_CAST(verified_at AS TIMESTAMP) DESC NULLS LAST: a is read
\* strictly before b
readBefore(a, b) ==
  /\ a.verified_at.kind = "timestamp"
  /\ b.verified_at.kind = "null" \/ b.verified_at.value < a.verified_at.value

\* the orders in which the query can return the records of the table
rawRowsOf(table) ==
  {f \in [1..Cardinality(table) -> table] :
     /\ \A i, j \in DOMAIN f : i # j => f[i] # f[j]
     /\ \A i, j \in DOMAIN f : i < j => ~readBefore(f[j], f[i])}

hasTimestamp(v) == v.kind = "timestamp"

\* undefined, null or a string that is empty after trim
isBlank(prop, v) == IF prop = "verified_at" THEN v.kind = "null" ELSE v = NULL \/ Trim(v) = <<>>

isNull(prop, v) == IF prop = "verified_at" THEN v.kind = "null" ELSE v = NULL

\* the merge that lets a later record overwrite
mergePropLastWins(prop, existingVal, val) ==
  IF ~isNull(prop, val) THEN val ELSE existingVal

\* a property of the record kept for a key, after a further record of the
\* key is read
mergeProp(prop, existingVal, val) ==
  IF isBlank(prop, existingVal)
    THEN IF ~isNull(prop, val) THEN val ELSE existingVal
    ELSE IF prop = "verified_at" /\ ~hasTimestamp(existingVal) /\ hasTimestamp(val)
      THEN val
      ELSE existingVal

\* the Map of mergeVerifyRows as a sequence in insertion order; r is read next
mergeNext(map, r) ==
  LET key == VerifyRecKey(r)
      at == {i \in DOMAIN map : VerifyRecKey(map[i]) = key}
  IN  IF at = {} THEN Append(map, r)
      ELSE [i \in DOMAIN map |->
              IF i \in at THEN [prop \in DOMAIN r |-> mergeProp(prop, map[i][prop], r[prop])]
              ELSE map[i]]

\* mergeVerifyRows over the rows in the order they are read
RECURSIVE mergeVerifyRowsInOrder(_)
mergeVerifyRowsInOrder(rws) ==
  IF rws = <<>> THEN <<>>
  ELSE mergeNext(mergeVerifyRowsInOrder(SubSeq(rws, 1, Len(rws) - 1)), rws[Len(rws)])

\* a table of verification records; nothing is read yet
InitVerifyGet ==
  /\ InitSession
  /\ call \in {<<"GET", table>> : table \in VerifyTables}
  /\ dispatchTable = {}
  /\ verifyTable = {}
  /\ awaiting = {}
  /\ orderPage = OrderPage
  /\ orderCount = ServerTotal
  /\ stockTable = StockRows
  /\ filters = InitialFilters

\* GET /api/verify: the rows as read and the merged rows of the response
verifyGET ==
  /\ result = <<>>
  /\ result' \in {<<"verify", rawRows, mergeVerifyRowsInOrder(rawRows)>> :
                    rawRows \in rawRowsOf(call[2])}
  /\ UNCHANGED call
  /\ UNCHANGED pureFrame

NextVerifyGet == verifyGET

SpecVerifyGet == InitVerifyGet /\ [][NextVerifyGet]_vars

(* ------------------------------------------------------------------------ *)
(* Grouping of the visible rows                                             *)
(* ------------------------------------------------------------------------ *)

ALL_GROUP_KEYS == <<"Customer", "Item", "Color", "Broker", "Status">>

\* the group keys in use: the valid names of groupBy, Customer when none
effectiveGroupKeysOf(by) ==
  IF by = <<>> THEN <<"Customer">>
  ELSE LET arr == SelectSeq(by, LAMBDA g : g \in SeqToSet(ALL_GROUP_KEYS))
       IN  IF arr # <<>> THEN arr ELSE <<"Customer">>

\* formatCell of a string or null: trimmed, "" for null, blank and "nan"
formatCell(value) ==
  IF value = NULL THEN <<>>
  ELSE LET v == Trim(value)
       IN  IF ToLowerCase(v) = <<"n", "a", "n">> THEN <<>> ELSE v

EmptyLabel == <<"(", "e", "m", "p", "t", "y", ")">>

\* effectiveGroupKeys.map(...): the formatted values of a row
partsOf(r, keys) ==
  [i \in DOMAIN keys |->
     IF formatCell(r[keys[i]]) = <<>> THEN EmptyLabel ELSE formatCell(r[keys[i]])]

\* parts.join(" | ")
RECURSIVE joinParts(_)
joinParts(parts) ==
  IF parts = <<>> THEN <<>>
  ELSE IF Len(parts) = 1 THEN parts[1]
  ELSE parts[1] \o <<" ", "|", " ">> \o joinParts(Tail(parts))

\* the characters in use in the order of their primary collation weight
\* (letters without regard to case)
CollationOrder ==
  <<" ", "_", "-", "(", ")", "[", "]", "|",
    "0", "1", "2", "3", "4", "5", "6", "7", "8", "9">> \o LowerLetters

Weight(c) == CHOOSE i \in DOMAIN CollationOrder : CollationOrder[i] = LowerChar(c)

RECURSIVE PrimaryCompare(_, _)
PrimaryCompare(a, b) ==
  IF a = <<>> /\ b = <<>> THEN 0
  ELSE IF a = <<>> THEN 0 - 1
  ELSE IF b = <<>> THEN 1
  ELSE IF Weight(Head(a)) # Weight(Head(b)) THEN Sign(Weight(Head(a)) - Weight(Head(b)))
  ELSE PrimaryCompare(Tail(a), Tail(b))

\* at equal primary weights the first difference of case decides, the
\* lower-case letter first
RECURSIVE CaseCompare(_, _)
CaseCompare(a, b) ==
  IF a = <<>> THEN 0
  ELSE IF Head(a) = Head(b) THEN CaseCompare(Tail(a), Tail(b))
  ELSE IF Head(a) = LowerChar(Head(a)) THEN 0 - 1 ELSE 1

\* sign of a.localeCompare(b)
localeCompare(a, b) ==
  IF PrimaryCompare(a, b) # 0 THEN PrimaryCompare(a, b) ELSE CaseCompare(a, b)

\* parseDateToTs(r.so_date_parsed ?? r.SO_Date): a day number, or Infinity
tsOf(r) == [has |-> r.hasDate, ts |-> IF r.hasDate THEN r.so_date ELSE 0]

\* Math.min of two timestamps
minTs(a, b) ==
  IF ~a.has THEN b ELSE IF ~b.has THEN a ELSE IF b.ts < a.ts THEN b ELSE a

\* a !== b of two timestamps, and a - b < 0
tsDiffer(a, b) == a.has # b.has \/ (a.has /\ a.ts # b.ts)
tsLess(a, b) == a.has /\ (~b.has \/ a.ts < b.ts)

\* the comparator of the rows of a group is negative
rowBefore(a, b) ==
  IF tsDiffer(tsOf(a), tsOf(b)) THEN tsLess(tsOf(a), tsOf(b))
  ELSE localeCompare(OrEmpty(a.SO_No), OrEmpty(b.SO_No)) < 0

\* the comparator of the groups is negative
groupBefore(a, b) ==
  IF tsDiffer(a.minTimestamp, b.minTimestamp) THEN tsLess(a.minTimestamp, b.minTimestamp)
  ELSE localeCompare(a.key, b.key) < 0

\* Array.prototype.sort (stable) of rows and of groups
RECURSIVE sortGroupRows(_)
sortGroupRows(rws) ==
  IF rws = <<>> THEN <<>>
  ELSE LET init == sortGroupRows(SubSeq(rws, 1, Len(rws) - 1))
           x == rws[Len(rws)]
           k == IF \E i \in DOMAIN init : rowBefore(x, init[i])
                  THEN (CHOOSE i \in DOMAIN init :
                          rowBefore(x, init[i]) /\ \A j \in 1..(i - 1) : ~rowBefore(x, init[j])) - 1
                  ELSE Len(init)
       IN  SubSeq(init, 1, k) \o <<x>> \o SubSeq(init, k + 1, Len(init))

RECURSIVE sortGroups(_)
sortGroups(gs) ==
  IF gs = <<>> THEN <<>>
  ELSE LET init == sortGroups(SubSeq(gs, 1, Len(gs) - 1))
           x == gs[Len(gs)]
           k == IF \E i \in DOMAIN init : groupBefore(x, init[i])
                  THEN (CHOOSE i \in DOMAIN init :
                          groupBefore(x, init[i]) /\ \A j \in 1..(i - 1) : ~groupBefore(x, init[j])) - 1
                  ELSE Len(init)
       IN  SubSeq(init, 1, k) \o <<x>> \o SubSeq(init, k + 1, Len(init))

\* the Map of groups in insertion order, after the row r
addToGroups(map, r, keys) ==
  LET parts == partsOf(r, keys)
      key == joinParts(parts)
      at == {i \in DOMAIN map : map[i].key = key}
  IN  IF at = {}
        THEN Append(map, [key |-> key, labelParts |-> parts, rows |-> <<r>>,
                          count |-> 1, sum |-> qtyOf(r), minTimestamp |-> tsOf(r)])
        ELSE [i \in DOMAIN map |->
                IF i \in at
                  THEN [map[i] EXCEPT !.rows = Append(@, r), !.count = @ + 1,
                                      !.sum = @ + qtyOf(r),
                                      !.minTimestamp = minTs(@, tsOf(r))]
                  ELSE map[i]]

RECURSIVE groupsOf(_, _)
groupsOf(rws, keys) ==
  IF rws = <<>> THEN <<>>
  ELSE addToGroups(groupsOf(SubSeq(rws, 1, Len(rws) - 1), keys), rws[Len(rws)], keys)

\* the grouped rows of the table
grouped(rws, by) ==
  LET map == groupsOf(rws, effectiveGroupKeysOf(by))
  IN  sortGroups([i \in DOMAIN map |-> [map[i] EXCEPT !.rows = sortGroupRows(@)]])

GroupRow(so, customer, item, color, broker, status, hasQty, qty, hasDate, day) ==
  [SO_No |-> so, Customer |-> customer, Item |-> item, Color |-> color,
   Broker |-> broker, Status |-> status, hasQty |-> hasQty, OrderQty |-> qty,
   hasDate |-> hasDate, so_date |-> day]

\* visible rows: customers and items with and without the separator of the
\* group key, with whitespace around, with different case, a row without
\* date and a row without quantity
GroupPool ==
  { GroupRow(<<"s", "a">>, <<"a", " ", "|", " ", "b">>, <<"c">>, <<"r">>, NULL,
             <<"A", "c", "t", "i", "v", "e">>, TRUE, 2, TRUE, 2),
    GroupRow(<<"s", "b">>, <<"a">>, <<"b", " ", "|", " ", "c">>, <<"r">>, <<>>,
             <<"A", "c", "t", "i", "v", "e">>, TRUE, 3, TRUE, 1),
    GroupRow(<<"s", "c">>, <<" ", "a", " ">>, <<"c">>, <<"r">>, <<"n", "a", "n">>,
             <<"C", "a", "n", "c", "e", "l", "l", "e", "d">>, TRUE, 1, FALSE, 0),
    GroupRow(<<"s", "d">>, <<"a">>, <<"c">>, <<"R">>, <<"k">>,
             <<"A", "c", "t", "i", "v", "e">>, FALSE, 0, TRUE, 3),
    GroupRow(<<"S", "a">>, <<"B">>, <<"c">>, <<"r">>, <<"k">>,
             <<"A", "c", "t", "i", "v", "e">>, TRUE, 5, TRUE, 1) }

\* most visible rows
MaxGroupRows == 3

GroupRowSeqs ==
  UNION { {f \in [1..n -> GroupPool] : \A i, j \in 1..n : i # j => f[i] # f[j]} :
            n \in 0..MaxGroupRows }

\* values of the groupBy property: empty, valid, with an invalid name, invalid
GroupByInputs ==
  { <<>>, <<"Customer">>, <<"Customer", "Item">>, <<"Status">>,
    <<"Size", "Color">>, <<"Size">>, <<"Broker", "Status">> }

\* the rows and the group-by list of the table; nothing is grouped yet
InitGrouping ==
  /\ InitSession
  /\ call \in {<<"grouped", rws, by>> : rws \in GroupRowSeqs, by \in GroupByInputs}
  /\ dispatchTable = {}
  /\ verifyTable = {}
  /\ awaiting = {}
  /\ orderPage = OrderPage
  /\ orderCount = ServerTotal
  /\ stockTable = StockRows
  /\ filters = InitialFilters

groupedMemo ==
  /\ result = <<>>
  /\ result' = <<"grouped", grouped(call[2], call[3])>>
  /\ UNCHANGED call
  /\ UNCHANGED pureFrame

NextGrouping == groupedMemo

SpecGrouping == InitGrouping /\ [][NextGrouping]_vars

(* ------------------------------------------------------------------------ *)
(* The invoice-history variant of the table: the load step that fetches     *)
(* /api/invoice-details?limit=1000 and hides the rows ordered before the    *)
(* latest invoice of their customer, item and colour                        *)
(* ------------------------------------------------------------------------ *)
normalizeColorForCompare(v) == ToLowerCase(Trim(OrEmpty(v)))

\* Calendar dates are <<year, month, day>>; the strings YYYY-MM-DD compare
\* as these tuples do.
DateLess(a, b) ==
  \/ a[1] < b[1]
  \/ a[1] = b[1] /\ a[2] < b[2]
  \/ a[1] = b[1] /\ a[2] = b[2] /\ a[3] < b[3]

DaysInMonth(y, m) ==
  IF m = 2 THEN (IF y % 4 = 0 THEN 29 ELSE 28)
  ELSE IF m \in {4, 6, 9, 11} THEN 30 ELSE 31

PreviousDay(dt) ==
  IF dt[3] > 1 THEN <<dt[1], dt[2], dt[3] - 1>>
  ELSE IF dt[2] > 1 THEN <<dt[1], dt[2] - 1, DaysInMonth(dt[1], dt[2] - 1)>>
  ELSE <<dt[1] - 1, 12, 31>>

\* MakeDay: a day number past the end of the month runs into the next month
MakeDay(y, m, d) ==
  IF d <= DaysInMonth(y, m) THEN <<y, m, d>>
  ELSE IF m < 12 THEN <<y, m + 1, d - DaysInMonth(y, m)>>
  ELSE <<y + 1, 1, d - 31>>

\* The date texts of the tables: "YYYY-MM-DD" (iso), two two-digit fields and
\* a year joined by dashes (dmy, the fields in the order they are written),
\* a text that is no date, and NULL.
IsoText(y, m, d) == [fmt |-> "iso", f1 |-> m, f2 |-> d, y |-> y]
DashedText(f1, f2, y) == [fmt |-> "dmy", f1 |-> f1, f2 |-> f2, y |-> y]
NoDateText == [fmt |-> "text", f1 |-> 0, f2 |-> 0, y |-> 0]
NullText == [fmt |-> "null", f1 |-> 0, f2 |-> 0, y |-> 0]

NoIso == [ok |-> FALSE, date |-> <<0, 0, 0>>]
Iso(dt) == [ok |-> TRUE, date |-> dt]

\* The JavaScript environment of the browser: Date.parse of a text that is not
\* in the standard format is implementation-defined (monthFirst: the engine
\* reads NN-NN-YYYY as month-day-year in local time, otherwise it rejects
\* it), and local midnight is the previous UTC day east of Greenwich.
Environments == [monthFirst : BOOLEAN, eastOfUtc : BOOLEAN]

\* new Date(Date.parse(ds)).toISOString().slice(0, 10), NoIso for NaN
DateParseIso(ds, env) ==
  IF ds.fmt = "iso"
  THEN IF ds.f1 \in 1..12 /\ ds.f2 \in 1..31 THEN Iso(MakeDay(ds.y, ds.f1, ds.f2)) ELSE NoIso
  ELSE IF ds.fmt = "dmy" /\ env.monthFirst /\ ds.f1 \in 1..12 /\ ds.f2 \in 1..31
  THEN LET local == MakeDay(ds.y, ds.f1, ds.f2)
       IN  Iso(IF env.eastOfUtc THEN PreviousDay(local) ELSE local)
  ELSE NoIso

\* tryParseIso / tryParseToIso
tryParseToIso(ds, env) ==
  IF ds.fmt = "null" THEN NoIso
  ELSE LET p == DateParseIso(ds, env)
       IN  IF p.ok THEN p
           ELSE IF ds.fmt = "dmy"
           THEN DateParseIso(IsoText(ds.y, ds.f2, ds.f1), env)
           ELSE NoIso

\* the SQL of GET /api/invoice-details: parsed_date of a Date column
parsed_date(ds) ==
  IF ds.fmt = "iso" /\ ds.f1 \in 1..12 /\ ds.f2 \in 1..DaysInMonth(ds.y, ds.f1)
  THEN IsoText(ds.y, ds.f1, ds.f2)
  ELSE IF ds.fmt = "dmy" /\ ds.f2 \in 1..12 /\ ds.f1 \in 1..DaysInMonth(ds.y, ds.f2)
  THEN IsoText(ds.y, ds.f2, ds.f1)
  ELSE NullText

InvoiceRecord(customer, item, color, orderNo, date) ==
  [Customer_Name |-> customer, Item_Code |-> item, Item_Color |-> color,
   Order_No |-> orderNo, Date |-> date]

InvoicePool ==
  { InvoiceRecord(<<"C", "c">>, <<"i", "t">>, <<"r">>, <<"i", "1">>, IsoText(2024, 4, 1)),
    InvoiceRecord(<<"C", "c">>, <<"i", "t">>, <<"r">>, <<"i", "2">>, DashedText(10, 3, 2024)),
    InvoiceRecord(<<" ", "c", "c", " ", "[", "X", "]">>, <<"I", "T", " ">>, <<"R">>,
                  <<"i", "3">>, IsoText(2024, 2, 25)),
    InvoiceRecord(<<"C", "c">>, <<"i", "t">>, <<"r">>, <<"i", "4">>, NoDateText),
    InvoiceRecord(NULL, <<"i", "t">>, <<"r">>, <<"i", "5">>, IsoText(2024, 12, 1)),
    InvoiceRecord(<<"D", "d">>, <<"i", "t">>, <<"r">>, <<"i", "6">>, IsoText(2024, 3, 20)) }

\* the older invoices of another customer, all dated before those of the pool
OlderInvoice ==
  InvoiceRecord(<<"Z", "z">>, <<"z">>, <<"z">>, <<"a">>, IsoText(2023, 1, 1))

OlderCounts == {0, 999, 1000}

MaxInvoiceRecords == 2

\* an invoice table: its records of the pool, each once, and n older invoices
InvoiceTables ==
  { [records |-> S, older |-> n] :
      S \in {T \in SUBSET InvoicePool : Cardinality(T) <= MaxInvoiceRecords},
      n \in OlderCounts }

copiesOf(tbl, x) == IF x = OlderInvoice THEN tbl.older ELSE 1
recordsOf(tbl) == tbl.records \cup (IF tbl.older > 0 THEN {OlderInvoice} ELSE {})

\* ORDER BY parsed_date ASC NULLS LAST, Order_No ASC
invoiceBefore(a, b) ==
  LET pa == parsed_date(a.Date)
      pb == parsed_date(b.Date)
      da == <<pa.y, pa.f1, pa.f2>>
      db == <<pb.y, pb.f1, pb.f2>>
  IN  IF pa.fmt = "null" /\ pb.fmt = "null" THEN StringLess(a.Order_No, b.Order_No)
      ELSE IF pa.fmt = "null" THEN FALSE
      ELSE IF pb.fmt = "null" THEN TRUE
      ELSE \/ DateLess(da, db)
           \/ da = db /\ StringLess(a.Order_No, b.Order_No)

RECURSIVE SumCopies(_, _)
SumCopies(tbl, S) ==
  IF S = {} THEN 0
  ELSE LET x == CHOOSE y \in S : TRUE
       IN  copiesOf(tbl, x) + SumCopies(tbl, S \ {x})

\* the records of which the page LIMIT limitNum OFFSET offsetNum holds a copy
invoiceRowsOf(tbl, limit, offset) ==
  LET limitNum == invoiceDetailsLimitNum(limit).num
      offsetNum == invoiceDetailsOffsetNum(offset).num
  IN  { x \in recordsOf(tbl) :
          LET before == SumCopies(tbl, {y \in recordsOf(tbl) : invoiceBefore(y, x)})
          IN  /\ before < offsetNum + limitNum
              /\ before + copiesOf(tbl, x) > offsetNum }

\* the row of the response: parsed_date beside the columns of the table
invoiceJsonOf(x) ==
  [Customer_Name |-> x.Customer_Name, Item_Code |-> x.Item_Code,
   Item_Color |-> x.Item_Color, Date |-> x.Date, parsed_date |-> parsed_date(x.Date)]

invKeyOf(customer, item, color) ==
  normalizeCustomerForCompare(customer) \o <<"|">> \o normalizeItemForCompare(item)
    \o <<"|">> \o normalizeColorForCompare(color)

\* the records the loop over invRows does not skip, with their ISO dates
datedInvoices(invRows, env) ==
  { [key |-> invKeyOf(inv.Customer_Name, inv.Item_Code, inv.Item_Color),
     iso |-> tryParseToIso(IF inv.parsed_date.fmt # "null" THEN inv.parsed_date
                           ELSE inv.Date, env).date] :
      inv \in { i \in invRows :
                  /\ normalizeCustomerForCompare(i.Customer_Name) # <<>>
                  /\ normalizeItemForCompare(i.Item_Code) # <<>>
                  /\ (IF i.parsed_date.fmt # "null" THEN i.parsed_date.fmt
                      ELSE i.Date.fmt) \notin {"null"}
                  /\ tryParseToIso(IF i.parsed_date.fmt # "null" THEN i.parsed_date
                                   ELSE i.Date, env).ok } }

\* invMapRaw / finalInvMap: the greatest ISO date of each key
finalInvMapOf(invRows, env) ==
  LET dated == datedInvoices(invRows, env)
      keys == {e.key : e \in dated}
  IN  [k \in keys |->
         (CHOOSE e \in dated :
            e.key = k /\ \A o \in dated : o.key = k => ~DateLess(e.iso, o.iso)).iso]

OrderRow(so, customer, item, color, date) ==
  [SO_No |-> so, Customer |-> customer, Item |-> item, Color |-> color,
   SO_Date |-> date]

\* SO_Date is the order date as DD-MM-YYYY when the order query parsed it,
\* and else the text of the column
OrderPool ==
  { OrderRow(<<"s", "1">>, <<"C", "c">>, <<"i", "t">>, <<"r">>, DashedText(5, 3, 2024)),
    OrderRow(<<"s", "2">>, <<"C", "c">>, <<"i", "t">>, <<"r">>, DashedText(25, 3, 2024)),
    OrderRow(<<"s", "3">>, <<"c", "c", " ", "[", "K", "]">>, <<" ", "I", "T">>, <<"R">>,
             DashedText(1, 4, 2024)),
    OrderRow(<<"s", "4">>, <<"C", "c">>, <<"i", "t">>, <<"r">>, DashedText(15, 4, 2024)),
    OrderRow(<<"s", "5">>, <<"C", "c">>, <<"i", "t">>, <<"r">>, NoDateText),
    OrderRow(<<"s", "6">>, <<"C", "c">>, <<"i", "t">>, <<"b">>, DashedText(20, 1, 2024)),
    OrderRow(<<"s", "7">>, <<"C", "c">>, <<"i", "t">>, <<"r">>, NullText) }

MaxOrderRows == 1

OrderRowSets == {S \in SUBSET OrderPool : Cardinality(S) <= MaxOrderRows}

\* rowsWithUid.filter(...) of the invoice logic
keptByInvoice(r, finalInvMap, env) ==
  LET invKey == invKeyOf(r.Customer, r.Item, r.Color)
      soIso == tryParseToIso(r.SO_Date, env)
  IN  \/ invKey \notin DOMAIN finalInvMap
      \/ ~soIso.ok
      \/ ~DateLess(soIso.date, finalInvMap[invKey])

InvoiceRequestLimit == <<"1", "0", "0", "0">>

InitInvoice ==
  /\ InitSession
  /\ call \in { <<"load", rws, tbl, env>> :
                  rws \in OrderRowSets, tbl \in InvoiceTables, env \in Environments }
  /\ dispatchTable = {}
  /\ verifyTable = {}
  /\ awaiting = {}
  /\ orderPage = OrderPage
  /\ orderCount = ServerTotal
  /\ stockTable = StockRows
  /\ filters = InitialFilters

\* the invoice step of load(): the request answered with the page of the
\* invoice table, or not ok
loadInvoiceStep ==
  /\ result = <<>>
  /\ \E ok \in BOOLEAN :
       LET invRows == IF ok
                      THEN {invoiceJsonOf(x) : x \in invoiceRowsOf(call[3], InvoiceRequestLimit, NULL)}
                      ELSE {}
           finalInvMap == finalInvMapOf(invRows, call[4])
       IN  result' = <<"invoice", ok, finalInvMap,
                       {r \in call[2] : keptByInvoice(r, finalInvMap, call[4])}>>
  /\ UNCHANGED call
  /\ UNCHANGED pureFrame

NextInvoice == loadInvoiceStep

SpecInvoice == InitInvoice /\ [][NextInvoice]_vars

(* ------------------------------------------------------------------------ *)
(* A session in which the operator ticks rows and requests verification but *)
(* never touches a colour pill                                              *)
(* ------------------------------------------------------------------------ *)

\* what an earlier session left for the first row of the page: its request
\* with the replacement colour b, alone or with its confirmation
ColourRequestRecord ==
  buildWhitelistedRow(verifyRowOf(LoadedActionRows[1],
                                  MapPut(EmptyMap, rowKeyFrom(LoadedActionRows[1]), <<"b">>)))
ColourConfirmedRecord == buildWhitelistedRowForConfirm(ColourRequestRecord)

InitReview ==
  /\ InitSession
  /\ call = <<>>
  /\ dispatchTable = {}
  /\ verifyTable \in {{}, {ColourRequestRecord},
                       {ColourRequestRecord, ColourConfirmedRecord}}
  /\ awaiting = IF verifyTable = {ColourRequestRecord}
                  THEN {VerifyRecKey(ColourRequestRecord)} ELSE {}
  /\ orderPage = ActionPage
  /\ orderCount = Len(ActionPage)
  /\ stockTable = StockRows
  /\ filters = NoSelection

NextReview ==
  \/ programStep /\ \E c \in DOMAIN cycles : LoadAborted(c)
  \/ programStep /\ \E c \in DOMAIN cycles, ok \in BOOLEAN : LoadKeysDone(c, ok)
  \/ programStep /\ \E c \in DOMAIN cycles, ok \in BOOLEAN : LoadVerifyDone(c, ok)
  \/ programStep /\ \E c \in DOMAIN cycles : LoadOrdersDone(c)
  \/ programStep /\ \E c \in DOMAIN cycles : LoadOrdersNotOk(c)
  \/ programStep /\ \E c \in DOMAIN cycles : LoadOrdersError(c)
  \/ programStep /\ \E c \in DOMAIN cycles, ok \in BOOLEAN : LoadStockDone(c, ok)
  \/ watchedEvent /\ FiltersChanged
  \/ watchedEvent /\ \E i \in DOMAIN rows : ToggleRowChecked(i)
  \/ watchedEvent /\ ClickVerifySelected
  \/ programStep /\ \E req \in BagToSet(verifyReqs) : VerifySelectedOk(req)
  \/ programStep /\ \E req \in BagToSet(verifyReqs) : VerifySelectedFailed(req)
  \/ watchedEvent /\ \E rec \in verifyTable : ConfirmVerification(rec)
  \/ watchedEvent /\ \E incoming \in channel : OnVerifiedConfirmed(incoming)

SpecReview == InitReview /\ [][NextReview]_vars

SpecActions == InitLoaded /\ [][NextActions]_vars

TypeOK ==
  /\ total \in 0..serverTotalOf(ordersResponse)
  /\ loading \in BOOLEAN /\ saving \in BOOLEAN /\ verifying \in BOOLEAN
  /\ Len(cycles) \in 1..(MaxEvents + 1)
  /\ events \in 0..MaxEvents

(* ------------------------------------------------------------------------ *)
(* Properties of the order table                                            *)
(* ------------------------------------------------------------------------ *)

\* C1: in every reachable state no row of the visible set has a composite key
\* that is in the dispatched set
C1_NoDispatchedRowVisible ==
  \A i \in DOMAIN rows : rowKeyFrom(rows[i]) \notin dispatchedSet

\* a row whose key is in the dispatched set is visible while no cycle and no
\* request is running
C1_DispatchedRowVisibleAtRest ==
  /\ \E i \in DOMAIN rows : rowKeyFrom(rows[i]) \in dispatchedSet
  /\ \A c \in DOMAIN cycles : cycles[c].pc = "done"
  /\ saveReqs = EmptyBag /\ verifyReqs = EmptyBag

\* C2: once Save Dispatched has succeeded for a row, with or without a
\* replacement colour, no row with that composite key is in the visible set
\* of any later state
C2_SavedRowStaysAbsent ==
  \A i \in DOMAIN rows : rowKeyFrom(rows[i]) \notin savedKeys

\* a row saved with a replacement colour is visible again after a later
\* cycle: every cycle has finished and the dispatched set is what the
\* dispatched-keys boundary returns
C2_RecolouredRowIsBack ==
  /\ \E i \in DOMAIN rows : rowKeyFrom(rows[i]) \in savedKeys
  /\ \A c \in DOMAIN cycles : cycles[c].pc = "done"
  /\ dispatchTable # {}
  /\ dispatchedSet = localDispatchedSetOf(DispatchKeysGET(dispatchTable))

\* C3: a step of a cycle that has been superseded writes none of rows, total,
\* dispatched set, pending set, checked, loading
C3_SupersededCycleWritesNothing ==
  [][\A c \in DOMAIN cycles :
        (cycles[c].aborted /\ cycles'[c] # cycles[c])
          => UNCHANGED <<rows, total, dispatchedSet, pendingSet, checked, loading>>]_vars

\* a cycle that was superseded before it finished has published its rows and
\* cleared loading while the cycle that superseded it is still running
C3_SupersededCycleHasPublished ==
  /\ events = 1 /\ Len(cycles) = 2 /\ cycles[2].pc # "done"
  /\ ~loading /\ rows # <<>>

\* C4: when a Save Dispatched completes, the visible set is the then-current
\* visible set minus exactly the rows the request submitted
C4_SaveMergesIntoCurrentRows ==
  [][\A req \in BagToSet(saveReqs) :
        SaveDispatchedOk(req)
          => rows' = SelectSeq(rows, LAMBDA r : rowKeyFrom(r) \notin submittedKeysOf(req))]_vars

\* C5: in every reachable state no row of the visible set has a composite key
\* that is in the pending set
C5_NoPendingRowVisible ==
  \A i \in DOMAIN rows : rowKeyFrom(rows[i]) \notin pendingSet

\* C6: when the dispatch boundary accepts a Save Dispatched request, the
\* submitted rows are not visible, the composite key of every submitted row
\* (with its own colour) is in the dispatched set, the checked map, the
\* submitted rows' colour selections and production quantities are cleared,
\* and total is decreased by the number of submitted rows, not below 0
C6_AcceptedSave ==
  [][\A req \in BagToSet(saveReqs) :
        SaveDispatchedOk(req)
          => /\ rowKeys(rows') \cap submittedKeysOf(req) = {}
             /\ submittedKeysOf(req) \subseteq dispatchedSet'
             /\ checked' = {}
             /\ DOMAIN selectedColors' \cap submittedKeysOf(req) = {}
             /\ DOMAIN productionQtyByUid' \cap req.selectedUids = {}
             /\ total' = Max(0, total - Len(req.selectedRows))]_vars

\* C7 as stated: when a Save Dispatched request fails, the visible rows and
\* the checked selection are what they were when the request was issued
C7_FailedSaveRestoresIssueState ==
  [][\A req \in BagToSet(saveReqs) :
        SaveDispatchedFailed(req)
          => rows' = req.rows /\ checked' = req.selectedUids /\ saving' = FALSE]_vars

\* C7: the failure of a Save Dispatched request changes none of the visible
\* rows, the checked selection, the colour selections, the production
\* quantities, the dispatched set and total, and the saving flag is false
C7_FailedSaveChangesNothing ==
  [][\A req \in BagToSet(saveReqs) :
        SaveDispatchedFailed(req)
          => /\ UNCHANGED <<rows, checked, selectedColors, productionQtyByUid,
                            dispatchedSet, total>>
             /\ saving' = FALSE]_vars

\* a Save Dispatched request has failed and rows are still visible and checked
C7_SaveHasFailed ==
  /\ "Save dispatched failed" \in consoleErrors
  /\ ~saving
  /\ checked # {} /\ checked \subseteq rowUids(rows)

\* C8: the failure of a Request verification submission mutates no part of
\* the state (rows, pending set, pending map, colour selections, checked
\* selection, total and the rest), and the verifying flag is false
C8_FailedVerifyChangesNothing ==
  [][\A req \in BagToSet(verifyReqs) :
        VerifySelectedFailed(req)
          => /\ UNCHANGED <<rows, pendingSet, pendingMap, selectedColors, checked,
                            total, loading, saving, dispatchedSet,
                            productionQtyByUid, cycles>>
             /\ verifying' = FALSE]_vars

\* a Request verification submission has failed and its rows are still
\* visible and checked
C8_VerifyHasFailed ==
  /\ "Verify (request) API failed" \in consoleErrors
  /\ ~verifying
  /\ checked # {} /\ checked \subseteq rowUids(rows)

\* C9: when the verification boundary accepts a submission of n rows, their
\* composite keys are in the pending set, none of them is visible, the
\* checked map and their colour selections are cleared, and total is
\* decreased by n, not below 0
C9_AcceptedVerification ==
  [][\A req \in BagToSet(verifyReqs) :
        VerifySelectedOk(req)
          => LET keys == keysToAddOf(req.rowsToSend)
             IN  /\ keys \subseteq pendingSet'
                 /\ rowKeys(rows') \cap keys = {}
                 /\ checked' = {}
                 /\ DOMAIN selectedColors' \cap keys = {}
                 /\ total' = Max(0, total - Len(req.rowsToSend))]_vars

\* C9 as stated: the same, and the n by which total is decreased is the
\* number of rows the step removes from the visible set
C9_TotalDecreaseIsRowsRemoved ==
  [][\A req \in BagToSet(verifyReqs) :
        VerifySelectedOk(req)
          => LET keys == keysToAddOf(req.rowsToSend)
             IN  /\ keys \subseteq pendingSet'
                 /\ rowKeys(rows') \cap keys = {}
                 /\ checked' = {}
                 /\ DOMAIN selectedColors' \cap keys = {}
                 /\ total' = Max(0, total - Len(req.rowsToSend))
                 /\ Len(rows) - Len(rows') = Len(req.rowsToSend)]_vars

\* a submission has been accepted: its keys are pending in the warehouse and
\* in the pending map of the session
C9_VerificationWasAccepted ==
  /\ DOMAIN pendingMap # {}
  /\ DOMAIN pendingMap \subseteq pendingSet
  /\ verifyTable # {}
  /\ ~verifying

\* C10: at most one Save Dispatched request and at most one Request
\* verification submission are outstanding at any time
C10_AtMostOneRequestPerAction ==
  BagCardinality(saveReqs) <= 1 /\ BagCardinality(verifyReqs) <= 1

\* both requests are in flight while rows are still checked
C10_BothInFlight ==
  /\ BagCardinality(saveReqs) = 1 /\ BagCardinality(verifyReqs) = 1
  /\ checked # {}

\* C11: at most one Cancel order request is outstanding at any time: a second
\* confirmation while a request is in flight sends no second request
C11_AtMostOneCancelRequest ==
  BagCardinality(cancelReqs) <= 1

\* the dialog is still open with a request in flight, and a second
\* confirmation has sent a second request for the same order
C11_SecondCancelRequestSent ==
  /\ cancelDialogOrder # <<>>
  /\ \E req \in BagToSet(cancelReqs) :
        req.orderNo = cancelDialogOrder[1].SO_No /\ CopiesIn(req, cancelReqs) = 2

\* C12: handling a verified:confirmed event for key k removes k from the
\* pending set and the pending map and, when no visible row has key k, puts
\* the carried row at the front of the visible set, otherwise leaves the rows
\* alone; handling the same event once more changes none of rows, pending
\* set and pending map, and exactly one visible row has key k
C12_ConfirmedEventIsIdempotent ==
  [][\A incoming \in channel :
        OnVerifiedConfirmed(incoming)
          => LET k == confirmedKeyOf(incoming)
             IN  /\ k \notin pendingSet'
                 /\ k \notin DOMAIN pendingMap'
                 /\ (k \notin rowKeys(rows)
                       => /\ Tail(rows') = rows
                          /\ rowKeyFrom(Head(rows')) = k
                          /\ Head(rows') = newRowOf(incoming, Head(rows').uid))
                 /\ (k \in rowKeys(rows) => rows' = rows)
                 /\ Cardinality({i \in DOMAIN rows' : rowKeyFrom(rows'[i]) = k}) = 1
                 /\ rowsAfterConfirmed(rows', incoming, <<Len(cycles') + 1, 0>>) = rows'
                 /\ pendingSet' \ {k} = pendingSet'
                 /\ MapDel(pendingMap', {k}) = pendingMap']_vars

\* the confirmation of the first row was delivered twice: the row the first
\* delivery put at the front is still the only row with its key
C12_DuplicateDelivered ==
  /\ deliveries = 2
  /\ Len(cycles) = 3
  /\ rows # <<>>
  /\ rows[1].uid = <<2, 0>>
  /\ Cardinality({i \in DOMAIN rows :
                    rowKeyFrom(rows[i]) = confirmedKeyOf(ConfirmedRecord)}) = 1

\* C13: while an accepted verification request for key k awaits its
\* confirmation, every cycle whose verification fetch succeeds classifies k
\* as pending and publishes no row with key k, also when an earlier
\* verification of k was confirmed
C13_AwaitedKeyIsPendingAndExcluded ==
  [][\A c \in DOMAIN cycles :
        /\ (LoadVerifyDone(c, TRUE) => awaiting \subseteq pendingSet')
        /\ ((cycles[c].vrows # {} /\ cycles'[c].pc = "done"
               /\ (LoadOrdersDone(c) \/ \E ok \in BOOLEAN : LoadStockDone(c, ok)))
              => rowKeys(rows') \cap awaiting = {})]_vars

\* the first cycle of a fresh session has finished: the row whose second
\* request awaits confirmation is visible and its key is not pending
C13_AwaitedRowVisibleAtRest ==
  /\ events = 0
  /\ \A c \in DOMAIN cycles : cycles[c].pc = "done"
  /\ ConfirmedRecord \in verifyTable
  /\ awaiting = {VerifyRecKey(PendingRecord)}
  /\ awaiting \subseteq rowKeys(rows)
  /\ pendingSet = {}
  /\ dispatchedSet = localDispatchedSetOf(DispatchKeysGET(dispatchTable))

C15_FailedSourceIsEmpty ==
  [][\A c \in DOMAIN cycles :
        /\ LoadKeysDone(c, FALSE)
             => /\ cycles'[c].pc = "verify"
                /\ ~cycles'[c].aborted
                /\ cycles'[c].localDispatchedSet = {}
                /\ dispatchedSet' = {}
                /\ UNCHANGED <<rows, total, loading>>
        /\ LoadVerifyDone(c, FALSE)
             => /\ cycles'[c].pc = "orders"
                /\ ~cycles'[c].aborted
                /\ cycles'[c].localPendingSet = {}
                /\ cycles'[c].vrows = {}
                /\ pendingSet' = {}
                /\ UNCHANGED <<rows, total, loading>>
        /\ (cycles[c].pc = "keys" /\ ~cycles[c].aborted /\ cycles'[c].pc # "keys")
             => cycles'[c].pc = "verify"
        /\ (cycles[c].pc = "verify" /\ ~cycles[c].aborted /\ cycles'[c].pc # "verify")
             => cycles'[c].pc = "orders"
        /\ (LoadOrdersDone(c) \/ LoadStockDone(c, TRUE) \/ LoadStockDone(c, FALSE))
             => (cycles'[c].pc = "done"
                   => /\ ~loading'
                      /\ total' <= serverTotalOf(ordersResponse)
                      /\ \A i \in DOMAIN rows' :
                            \E j \in DOMAIN orderPage :
                               rowKeyFrom(rows'[i]) = rowKeyFrom(orderPage[j]))]_vars

\* the dispatch table holds a saved row, the dispatched-keys fetch of the
\* last run failed, and that run has published the whole page with the
\* server's total and cleared loading
C15_PublishedWithoutDispatchedKeys ==
  /\ dispatchTable # {}
  /\ dispatchedSet = {}
  /\ \A c \in DOMAIN cycles : cycles[c].pc = "done"
  /\ ~loading
  /\ Len(rows) = Len(orderPage)
  /\ total = serverTotalOf(ordersResponse)

\* C19: whenever no visible row is checked and no visible row has a
\* replacement colour selected, the Verify from customer button is disabled
C19_VerifyDisabledWithoutSubmittableRow ==
  (\A i \in DOMAIN rows :
      /\ rows[i].uid \notin checked
      /\ ~hasSelectedColor(selectedColors, rowKeyFrom(rows[i])))
    => verifyDisabled

\* the button is enabled at rest although pressing it would send nothing
C19_EnabledWithNothingToSend ==
  /\ ~verifyDisabled
  /\ Len(rowsToSendOf(rows, checked, selectedColors)) = 0
  /\ \A c \in DOMAIN cycles : cycles[c].pc = "done"
  /\ saveReqs = EmptyBag /\ verifyReqs = EmptyBag

\* C20: an invocation of handleSaveDispatched while no row is checked puts
\* no request in flight and leaves rows, checked, the dispatched set, total
\* and the saving flag as they were; the dispatch table is not written
C20_SaveWithNothingCheckedIsNoOp ==
  [][SaveDispatchedReturnsEarly
       => /\ checked = {}
          /\ saveReqs' = saveReqs
          /\ dispatchTable' = dispatchTable
          /\ UNCHANGED <<rows, checked, dispatchedSet, total, saving>>]_vars

\* Save Dispatched was invoked again after an accepted save had removed the
\* checked rows and the selection
C20_InvokedAgainAfterSave ==
  /\ earlyReturns > 0
  /\ savedKeys # {}
  /\ checked = {}
  /\ saveReqs = EmptyBag
  /\ ~saving

\* C16: when a cycle ends, a row that the other stages leave is excluded
\* when the closing stocks of its item add up to exactly 0 or when the stock
\* table holds for its item only closing stocks that are no numbers; it is
\* kept when its stock is a number other than 0, when the stock table holds
\* nothing for its item and when the stock batch request failed (an answer
\* that gives no row a stock is not told from a failure)
C16_ZeroOrUnparseableStockExcluded ==
  [][\A c \in DOMAIN cycles :
        LET cand == finalRowsOf(cycles[c].rowsWithUid, filters)
            stockOf(r) == {j \in DOMAIN stockTable :
                             ToLowerCase(Trim(stockTable[j].normalized_item))
                               = normItemKey(r.Item)}
            parses(j) == ~closingStockOf(stockTable[j].Closing_Stock).nan
            sum(r) == SumStock(stockTable, normItemKey(r.Item),
                               stockColorsOf(stockTable, normItemKey(r.Item)))
            visible(r) == r.uid \in rowUids(rows')
        IN  /\ (LoadStockDone(c, TRUE) /\ ~LoadStockDone(c, FALSE))
                 => \A i \in DOMAIN cand :
                      LET r == cand[i]
                      IN  /\ stockOf(r) = {} => visible(r)
                          /\ (stockOf(r) # {} /\ \A j \in stockOf(r) : ~parses(j))
                               => ~visible(r)
                          /\ (stockOf(r) # {} /\ \A j \in stockOf(r) : parses(j))
                               => (visible(r) <=> sum(r) # 0)
            /\ LoadStockDone(c, FALSE)
                 => \A i \in DOMAIN cand : visible(cand[i])]_vars

\* a cycle whose stock batch was answered has published a row for whose
\* item the stock table holds only a closing stock that is no number
C16_RowWithUnparseableStockVisible ==
  /\ \A c \in DOMAIN cycles : cycles[c].pc = "done"
  /\ ~loading
  /\ \E i \in DOMAIN rows :
        LET held == {j \in DOMAIN stockTable :
                       ToLowerCase(Trim(stockTable[j].normalized_item))
                         = normItemKey(rows[i].Item)}
        IN  /\ held # {}
            /\ \A j \in held : closingStockOf(stockTable[j].Closing_Stock).nan
  /\ \E i \in DOMAIN rows : rows[i].hasStock

\* C17: the total a cycle publishes is max(0, serverTotal - k), k being the
\* number of rows of the fetched page that the cycle does not publish; when
\* the page has 3 rows of which exactly one is dispatched, none is pending,
\* exactly one of the others has a stock of 0, nothing is selected in the
\* filters and the count query covers the page, the cycle publishes exactly
\* 1 row and total = serverTotal - 2
C17_TotalIsServerTotalLessExcluded ==
  [][\A c \in DOMAIN cycles :
        ((LoadOrdersDone(c) \/ LoadStockDone(c, TRUE) \/ LoadStockDone(c, FALSE))
           /\ cycles'[c].pc = "done")
          => LET published == {rowKeyFrom(rows'[i]) : i \in DOMAIN rows'}
                 k == Cardinality({j \in DOMAIN orderPage :
                                     rowKeyFrom(orderPage[j]) \notin published})
                 gone == {j \in DOMAIN orderPage :
                            rowKeyFrom(orderPage[j]) \in cycles[c].localDispatchedSet}
                 awaited == {j \in DOMAIN orderPage :
                               rowKeyFrom(orderPage[j]) \in cycles[c].localPendingSet
                                  \cup cycles[c].originPendingKeys}
                 zero == {j \in DOMAIN orderPage \ gone :
                            LET key == normItemKey(orderPage[j].Item)
                                held == countedStockRows(StockBatchPOST(stockTable, {key}))
                            IN  /\ held # <<>>
                                /\ SumStock(held, key, stockColorsOf(held, key)) = 0}
             IN  /\ Len(rows') + k = Len(orderPage)
                 /\ total' = Max(0, serverTotalOf(ordersResponse) - k)
                 /\ (/\ Len(orderPage) = 3
                      /\ serverTotalOf(ordersResponse) >= 3
                      /\ Cardinality(gone) = 1
                      /\ awaited = {}
                      /\ Cardinality(zero) = 1
                      /\ filters = NoSelection
                      /\ LoadStockDone(c, TRUE) /\ ~LoadStockDone(c, FALSE))
                       => /\ Len(rows') = 1
                          /\ total' = serverTotalOf(ordersResponse) - 2]_vars

\* a page of 3 rows, one of them dispatched, has been published as 1 row
\* with the server's total less 2
C17_OneOfThreePublished ==
  /\ \A c \in DOMAIN cycles : cycles[c].pc = "done"
  /\ ~loading
  /\ Len(orderPage) = 3
  /\ Cardinality({j \in DOMAIN orderPage : rowKeyFrom(orderPage[j]) \in dispatchedSet}) = 1
  /\ pendingSet = {}
  /\ verifyTable = {}
  /\ filters = NoSelection
  /\ Len(rows) = 1
  /\ rows[1].hasStock /\ rows[1].Stock # 0
  /\ orderCount = 5
  /\ total = 3

\* C18: in the rows a cycle publishes, a row comes before another only if
\* its order quantity is larger; or the quantities are equal and it has a
\* stock and the other has none, or both have one and its stock is larger;
\* or quantity and stock are equal and the other has no date or a date that
\* is not earlier; and the comparator is a total preorder over every
\* combination of missing quantity, stock and date
C18_PublishedRowsAreOrdered ==
  [][\A c \in DOMAIN cycles :
        ((LoadOrdersDone(c) \/ LoadStockDone(c, TRUE) \/ LoadStockDone(c, FALSE))
           /\ cycles'[c].pc = "done")
          => /\ sortCompareIsConsistent
             /\ \A i, j \in DOMAIN rows' :
                  i < j =>
                    LET a == rows'[i]
                        b == rows'[j]
                        sameStock == (~a.hasStock /\ ~b.hasStock)
                                       \/ (a.hasStock /\ b.hasStock /\ a.Stock = b.Stock)
                    IN  \/ qtyOf(a) > qtyOf(b)
                        \/ qtyOf(a) = qtyOf(b) /\ a.hasStock /\ ~b.hasStock
                        \/ qtyOf(a) = qtyOf(b) /\ a.hasStock /\ b.hasStock
                             /\ a.Stock > b.Stock
                        \/ qtyOf(a) = qtyOf(b) /\ sameStock /\ ~b.hasDate
                        \/ qtyOf(a) = qtyOf(b) /\ sameStock /\ a.hasDate /\ b.hasDate
                             /\ a.so_date <= b.so_date]_vars

\* three rows of one quantity have been published in the reverse of the
\* page's order: the one with a stock, then of the two without stock the
\* dated one, then the one without date
C18_ThreeRowsReordered ==
  /\ \A c \in DOMAIN cycles : cycles[c].pc = "done"
  /\ Len(rows) = 3
  /\ qtyOf(rows[1]) = qtyOf(rows[2]) /\ qtyOf(rows[2]) = qtyOf(rows[3])
  /\ rows[1].hasStock /\ ~rows[2].hasStock /\ ~rows[3].hasStock
  /\ rows[2].hasDate /\ ~rows[3].hasDate
  /\ rowKeyFrom(orderPage[1]) = rowKeyFrom(rows[3])
  /\ rowKeyFrom(orderPage[3]) = rowKeyFrom(rows[1])

\* C21 (as stated): when the cancel boundary confirms a cancellation, the
\* visible set holds the same rows in the same order, one row of the order
\* has status Cancelled and every other row is unchanged, as are total,
\* checked and the pending and dispatched sets; a failed request changes no row
C21_CancelMarksOneRow ==
  [][\A req \in BagToSet(cancelReqs) :
        /\ CancelOrderOk(req)
             => /\ Len(rows') = Len(rows)
                /\ \E i \in DOMAIN rows :
                      /\ rows[i].SO_No = req.orderNo
                      /\ rows'[i] = [rows[i] EXCEPT !.Status = "Cancelled"]
                      /\ \A j \in DOMAIN rows \ {i} : rows'[j] = rows[j]
                /\ UNCHANGED <<total, checked, pendingSet, dispatchedSet>>
        /\ CancelOrderFailed(req) => UNCHANGED rows]_vars

\* C21: when the cancel boundary confirms the cancellation of an order, the
\* visible set holds the same rows in the same order, every row of that
\* order number has status Cancelled and is otherwise unchanged, every row
\* of another order is unchanged, as are total, checked and the pending and
\* dispatched sets; a failed request changes no row
C21_CancelMarksRowsOfTheOrder ==
  [][\A req \in BagToSet(cancelReqs) :
        /\ CancelOrderOk(req)
             => /\ Len(rows') = Len(rows)
                /\ \A i \in DOMAIN rows :
                      /\ rows'[i].uid = rows[i].uid
                      /\ rows[i].SO_No = req.orderNo
                           => rows'[i] = [rows[i] EXCEPT !.Status = "Cancelled"]
                      /\ rows[i].SO_No # req.orderNo => rows'[i] = rows[i]
                /\ UNCHANGED <<total, checked, pendingSet, dispatchedSet>>
        /\ CancelOrderFailed(req)
             => UNCHANGED <<rows, total, checked, pendingSet, dispatchedSet>>]_vars

\* an order of two rows has been cancelled: both rows are still visible
\* with status Cancelled, the row of the other order is as it was
C21_OrderCancelledInPlace ==
  /\ cancelReqs = EmptyBag
  /\ cancelDialogOrder = <<>>
  /\ Len(rows) = Len(LoadedActionRows)
  /\ Cardinality({i \in DOMAIN rows : rows[i].Status = "Cancelled"}) = 2
  /\ \E i \in DOMAIN rows : rows[i].Status = "Active" /\ rows[i] = LoadedActionRows[i]

\* C22: addToken, removeToken, onDateChange, onCustomersChange and
\* onItemsChange leave the applied filters as they are; apply makes the
\* applied tokens, dates, limit, customers and items equal to the draft as
\* it is and leaves the draft and the applied q, brand and city unchanged
C22_DraftEditsApplyOnlyOnApply ==
  [][/\ ((\E token \in TokenInputs : addToken(token) \/ removeToken(token))
          \/ (\E v \in DateInputs : onDateChange(v))
          \/ (\E selected \in CustomerInputs : onCustomersChange(selected))
          \/ (\E selected \in ItemInputs : onItemsChange(selected)))
         => filters' = filters
     /\ apply
         => /\ draft' = draft
            /\ filters'.tokens = draft.tokens
            /\ filters'.startDate = draft.startDate
            /\ filters'.endDate = draft.endDate
            /\ filters'.limit = draft.limit
            /\ filters'.customers = draft.customers
            /\ filters'.items = draft.items
            /\ filters'.q = filters.q
            /\ filters'.brand = filters.brand
            /\ filters'.city = filters.city]_vars

\* a draft was applied and then edited again: the applied filters still
\* hold the token and the customers of the apply, the draft has a second token
C22_EditedAfterApply ==
  /\ filters.tokens = <<"a">>
  /\ filters.customers # <<>>
  /\ draft.tokens = <<"a", "b">>
  /\ draft.customers = filters.customers
  /\ call = <<"addToken", "b">>

\* C23: clearTokens empties the tokens, and clearDates the start and end
\* date, of the draft and of the applied filters at once; every other field
\* of the applied filters and of the draft stays as it is, so edits of the
\* draft that were not applied stay unapplied
C23_ClearAppliesAtOnce ==
  [][/\ clearTokens
         => /\ draft' = [draft EXCEPT !.tokens = <<>>]
            /\ filters'.tokens = <<>>
            /\ \A f \in DOMAIN filters \ {"tokens"} : filters'[f] = filters[f]
     /\ clearDates
         => /\ draft' = [draft EXCEPT !.startDate = "", !.endDate = ""]
            /\ filters'.startDate = "" /\ filters'.endDate = ""
            /\ \A f \in DOMAIN filters \ {"startDate", "endDate"} :
                  filters'[f] = filters[f]]_vars

\* the tokens were cleared while dates were applied and a customer
\* selection of the draft was not: the applied dates are still there, the
\* customer selection is still unapplied
C23_TokensClearedOthersKept ==
  /\ call = <<"clearTokens">>
  /\ filters.tokens = <<>> /\ draft.tokens = <<>>
  /\ filters.startDate # "" /\ draft.startDate = filters.startDate
  /\ draft.customers # <<>> /\ filters.customers = <<>>

\* C24: the composite key is injective on the normalized fields: two rows
\* whose normalized fields differ in some position, fields that contain the
\* delimiter "|" included, have different keys, and two rows whose normalized
\* fields are equal have equal keys
C24_KeyInjectiveOnNormalizedFields ==
  (Len(result) = 3 /\ result[1] = "makeDispatchKey")
    => ((normalizedFields(call[2]) = normalizedFields(call[3]))
          <=> (result[2] = result[3]))

\* two rows that differ in the order number and in the customer, with the
\* delimiter in one field of each, have one key
C24_DelimiterInFieldsOneKey ==
  /\ Len(result) = 3 /\ result[1] = "makeDispatchKey"
  /\ normalizedFields(call[2])[1] = <<"A", "|", "B">>
  /\ normalizedFields(call[2])[2] = <<"A">>
  /\ normalizedFields(call[3])[1] = <<"A">>
  /\ normalizedFields(call[3])[2] = <<"B", "|", "A">>
  /\ result[2] = result[3]

\* C25: the composite key of a row does not change when a field changes its
\* letter case, its whitespace (leading, trailing or inside the field) or
\* gains or loses a bracketed suffix such as " [City]"; and normalizing a
\* normalized field returns it unchanged
C25_KeyStableUnderCaseWhitespaceSuffix ==
  LET plain(f) == ToLowerCase(Trim(CollapseSpaces(StripBrackets(OrEmpty(f)))))
  IN  Len(result) = 3
        => /\ (\A i \in 1..4 : plain(call[2][i]) = plain(call[3][i]))
                => result[2] = result[3]
           /\ \A i \in 1..4 :
                /\ normalizeFieldForKey(normalizeFieldForKey(call[2][i]))
                     = normalizeFieldForKey(call[2][i])
                /\ normalizeKeyPart(normalizeKeyPart(call[2][i]))
                     = normalizeKeyPart(call[2][i])

\* two rows that differ only in the whitespace inside the order number have
\* different keys
C25_InnerWhitespaceTwoKeys ==
  /\ Len(result) = 3
  /\ call[2][1] = <<"a", " ", "b">> /\ call[3][1] = <<"a", " ", " ", "b">>
  /\ \A i \in 2..4 : call[2][i] = call[3][i]
  /\ result[2] # result[3]

\* C26: the limit the order query passes to the warehouse is an integer in
\* [1,500] for every limit input: 25 when the input is absent, zero,
\* negative or not a number, 500 when the input is above 500; the offset it
\* passes is an integer >= 0
C26_OrderLimitInRange ==
  (Len(result) = 3 /\ result[1] = "sales-orders")
    => LET given == IF call[2] = NULL THEN JsNaN ELSE NumberOf(call[2])
       IN  /\ result[2].kind = "finite" /\ result[2].den = 1
           /\ result[2].num \in 1..500
           /\ (call[2] = NULL \/ given.kind = "NaN" \/ ~JsLess(JsInt(0), given))
                => result[2] = JsInt(25)
           /\ (given.kind = "finite" /\ JsLess(JsInt(500), given))
                => result[2] = JsInt(500)
           /\ result[3].kind = "finite" /\ result[3].den = 1
           /\ result[3].num >= 0

\* the order query asked with limit=0.5 passes LIMIT 0
C26_FractionBelowOneGivesZero ==
  /\ Len(result) = 3 /\ result[1] = "sales-orders"
  /\ call[2] = <<"0", ".", "5">>
  /\ result[2] = JsInt(0)

\* C27: for the auxiliary list routes (invoice-details, customers, stock,
\* sample-details) and every limit and offset input, the limit passed to the
\* warehouse is a finite integer in [1,1000], 100 when the input is absent
\* or invalid, and the offset is a finite integer >= 0: no NaN and no
\* negative number reaches the query
C27_AuxiliaryLimitInRange ==
  (Len(result) = 3 /\ result[1] # "sales-orders")
    => LET given == IF call[2] = NULL THEN JsNaN ELSE NumberOf(call[2])
       IN  /\ result[2].kind = "finite" /\ result[2].den = 1
           /\ result[2].num \in 1..1000
           /\ (call[2] = NULL \/ given.kind = "NaN") => result[2] = JsInt(100)
           /\ result[3].kind = "finite" /\ result[3].den = 1
           /\ result[3].num >= 0

\* the customers route asked with limit=abc binds NaN to LIMIT
C27_NaNReachesCustomersQuery ==
  /\ Len(result) = 3 /\ result[1] = "customers"
  /\ call[2] = <<"a", "b", "c">>
  /\ result[2] = JsNaN

\* C28: the selection returns exactly one row for every group of matching
\* rows with one order number, one lower-cased trimmed item and one colour,
\* and that row is a least row of its group under: rating priority (HIGH 1,
\* HIGH - CASH 2, CASH 3, CASH - NEW CLIENT 4, any other 5), then parsed
\* date ascending with nulls last, then order number ascending
C28_OneLeastRowPerGroup ==
  LET group(r) == <<r.SO_No, ToLowerCase(Trim(OrEmpty(r.Item))), r.Color>>
      priority(r) ==
        LET rating == ToUpperCase(Trim(OrEmpty(r.Rating)))
        IN  CASE rating = <<"H", "I", "G", "H">> -> 1
              [] rating = <<"H", "I", "G", "H", " ", "-", " ", "C", "A", "S", "H">> -> 2
              [] rating = <<"C", "A", "S", "H">> -> 3
              [] rating = <<"C", "A", "S", "H", " ", "-", " ", "N", "E", "W", " ",
                            "C", "L", "I", "E", "N", "T">> -> 4
              [] OTHER -> 5
      less(a, b) ==
        \/ priority(a) < priority(b)
        \/ priority(a) = priority(b) /\ a.hasDate /\ (~b.hasDate \/ a.so_date < b.so_date)
        \/ /\ priority(a) = priority(b)
           /\ a.hasDate = b.hasDate /\ (a.hasDate => a.so_date = b.so_date)
           /\ StringLess(OrEmpty(a.SO_No), OrEmpty(b.SO_No))
  IN  (Len(result) = 4 /\ result[1] = "sales-orders")
        => /\ \A i \in DOMAIN result[3] : result[3][i] \in result[2]
           /\ \A r \in result[2] :
                /\ Cardinality({i \in DOMAIN result[3] : group(result[3][i]) = group(r)}) = 1
                /\ \A i \in DOMAIN result[3] :
                     group(result[3][i]) = group(r) => ~less(r, result[3][i])

\* of three rows of one order line, rated HIGH with a date, cash with the
\* same date and HIGH without a date, the first is returned
C28_BestOfThreeReturned ==
  /\ Len(result) = 4 /\ result[1] = "sales-orders"
  /\ Cardinality(result[2]) = 3
  /\ \E r \in result[2] : ratingPriorityCase(r.Rating) = 3
  /\ \E r \in result[2] : ~r.hasDate
  /\ Len(result[3]) = 1
  /\ ratingPriorityCase(result[3][1].Rating) = 1 /\ result[3][1].hasDate

\* C29: the selection query is deterministic: for a table and a request the
\* row chosen for every group and the order of the rows returned are
\* uniquely determined, also when rows tie on rating, date and order number
C29_SelectionIsDeterministic ==
  (Len(result) = 4 /\ result[1] = "sales-orders")
    => \A other \in selectionResults(call[2], call[3]) : other = result

\* the table holds two rows of one order line that differ in the size only;
\* the query returned the row of size M and could have returned the other
C29_EitherSizeReturned ==
  /\ Len(result) = 4 /\ result[1] = "sales-orders"
  /\ Cardinality(call[2]) = 2
  /\ Cardinality({partitionOf(r) : r \in call[2]}) = 1
  /\ Len(result[3]) = 1 /\ result[3][1].Size = <<"M">>
  /\ \E other \in selectionResults(call[2], call[3]) :
       Len(other[3]) = 1 /\ other[3][1].Size = <<"S">>

\* C30: a row matches the tokens of a request when some token is a
\* case-insensitive substring of its order number, its item code or its
\* customer/city (the tokens are OR'd among themselves); the token condition
\* is ANDed with the other filters
C30_TokensAreOrdAmongThemselves ==
  LET contains(s, t) ==
        \E i \in 0..(Len(s) - Len(t)) : SubSeq(s, i + 1, i + Len(t)) = t
      matches(r, t) ==
        \/ contains(ToLowerCase(OrEmpty(r.SO_No)), ToLowerCase(t))
        \/ contains(ToLowerCase(OrEmpty(r.Item)), ToLowerCase(t))
        \/ contains(ToLowerCase(OrEmpty(r.Customer)), ToLowerCase(t))
      req == call[3]
      untokened == [req EXCEPT !.tokens = <<>>]
  IN  (Len(result) = 4 /\ result[1] = "sales-orders")
        => \A r \in call[2] :
             r \in result[2]
               <=> \/ /\ req.tokens = <<>> \/ \E i \in DOMAIN req.tokens : matches(r, req.tokens[i])
                      /\ baseFilters(r, untokened)
                      /\ itemLengthFilter(r) /\ pendingFilter(r)
                   \/ hasIncludeCondition(req) /\ includeCondition(r, req)

\* a request with the tokens a and b and no other filter, and a pending
\* row that holds a and not b: the row is not selected
C30_RowWithOneTokenOfTwoLeftOut ==
  /\ Len(result) = 4 /\ result[1] = "sales-orders"
  /\ call[3].tokens = << <<"a">>, <<"b">> >>
  /\ call[3].other = NoOtherParams
  /\ \E r \in call[2] :
       /\ r.SO_No = <<"s", "a">> /\ r.Item = <<"i", "t">> /\ r.Customer = <<"C", "c">>
       /\ r \notin result[2]

\* C31: every row the order query returns has a trimmed item code of at most
\* 8 characters and a status that is 'pending' ignoring case, for every
\* combination of filter parameters, requests with includeColumn and
\* includeValues included
C31_ReturnedRowsShortItemAndPending ==
  (Len(result) = 4 /\ result[1] = "sales-orders")
    => \A i \in DOMAIN result[3] :
         /\ result[3][i].Item # NULL /\ Len(Trim(result[3][i].Item)) <= 8
         /\ result[3][i].Status # NULL
         /\ ToLowerCase(Trim(result[3][i].Status)) = <<"p", "e", "n", "d", "i", "n", "g">>

\* a request that includes the order number sc returned a cancelled row and
\* a row with an item code of 9 characters
C31_IncludedRowsBypassFixedFilters ==
  /\ Len(result) = 4 /\ result[1] = "sales-orders"
  /\ call[3].other.includeColumn = <<"S", "O", "_", "N", "o">>
  /\ \E i \in DOMAIN result[3] : ~pendingFilter(result[3][i])
  /\ \E i \in DOMAIN result[3] : ~itemLengthFilter(result[3][i])

\* C32: the verification GET returns exactly one record for every composite
\* key of the table; the merged record of a key has a completion timestamp
\* exactly when a stored record of the key has one, and each of its other
\* fields is the first non-empty value of that field in the order the
\* records of the key are read
C32_MergedRecordPerKey ==
  LET raw == result[2]
      merged == result[3]
      keyOf(r) == normalizeKeyPart(r.SO_No) \o <<"|">> \o normalizeKeyPart(r.Customer)
                    \o <<"|">> \o normalizeKeyPart(r.Item) \o <<"|">> \o normalizeKeyPart(r.Color)
      empty(v) == v = NULL \/ Trim(v) = <<>>
      firstNonEmpty(k, prop, v) ==
        LET at == {i \in DOMAIN raw : keyOf(raw[i]) = k /\ ~empty(raw[i][prop])}
        IN  IF at = {} THEN empty(v)
            ELSE v = raw[CHOOSE i \in at : \A j \in at : i <= j][prop]
  IN  (Len(result) = 3 /\ result[1] = "verify")
        => /\ \A r \in call[2] :
                Cardinality({i \in DOMAIN merged : keyOf(merged[i]) = keyOf(r)}) = 1
           /\ \A i \in DOMAIN merged :
                /\ \E r \in call[2] : keyOf(r) = keyOf(merged[i])
                /\ merged[i].verified_at.kind = "timestamp"
                     <=> \E r \in call[2] : /\ keyOf(r) = keyOf(merged[i])
                                            /\ r.verified_at.kind = "timestamp"
                /\ \A prop \in {"SO_No", "Customer", "Item", "Color", "New_Color", "Size"} :
                     firstNonEmpty(keyOf(merged[i]), prop, merged[i][prop])

\* three records of one key were read, the first with a timestamp and a
\* blank replacement colour, the others pending: one record is returned,
\* with the timestamp and the replacement colour of the second record read
C32_ThreeRecordsMerged ==
  /\ Len(result) = 3 /\ result[1] = "verify"
  /\ Len(result[2]) = 3 /\ Len(result[3]) = 1
  /\ result[2][1].verified_at.kind = "timestamp"
  /\ result[2][1].New_Color = <<" ">>
  /\ result[2][2].New_Color = <<"b">>
  /\ result[3][1].verified_at.kind = "timestamp"
  /\ result[3][1].New_Color = <<"b">>

\* C33: grouping partitions the visible rows: every row is in exactly one
\* group; two rows are in one group exactly when their tuples of formatted
\* group-by values are equal; the count of a group is the number of its rows
\* and its sum the sum of their OrderQty; the groups are ordered by their
\* earliest order date, then by key; an empty or invalid group-by list
\* groups by Customer
C33_GroupingPartitionsRows ==
  LET rws == call[2]
      groups == result[2]
      valid == SelectSeq(call[3], LAMBDA g : g \in {"Customer", "Item", "Color", "Broker", "Status"})
      keys == IF valid = <<>> THEN <<"Customer">> ELSE valid
      tuple(r) == partsOf(r, keys)
      groupOf(r) == {g \in DOMAIN groups : \E i \in DOMAIN groups[g].rows : groups[g].rows[i] = r}
      qtySum(g) == LET Sum[n \in 0..Len(g.rows)] ==
                         IF n = 0 THEN 0 ELSE Sum[n - 1] + qtyOf(g.rows[n])
                   IN  Sum[Len(g.rows)]
      earliest(g) == LET dated == {i \in DOMAIN g.rows : g.rows[i].hasDate}
                     IN  IF dated = {} THEN [has |-> FALSE, ts |-> 0]
                         ELSE [has |-> TRUE,
                               ts |-> CHOOSE t \in {g.rows[i].so_date : i \in dated} :
                                        \A i \in dated : t <= g.rows[i].so_date]
      before(a, b) ==
        \/ tsLess(earliest(a), earliest(b))
        \/ earliest(a) = earliest(b) /\ localeCompare(a.key, b.key) < 0
  IN  (Len(result) = 2 /\ result[1] = "grouped")
        => /\ \A i \in DOMAIN rws : Cardinality(groupOf(rws[i])) = 1
           /\ \A g \in DOMAIN groups :
                /\ groups[g].rows # <<>>
                /\ \A i \in DOMAIN groups[g].rows : groups[g].rows[i] \in SeqToSet(rws)
                /\ groups[g].count = Len(groups[g].rows)
                /\ groups[g].sum = qtySum(groups[g])
           /\ \A i, j \in DOMAIN rws :
                (groupOf(rws[i]) = groupOf(rws[j])) <=> (tuple(rws[i]) = tuple(rws[j]))
           /\ \A g, h \in DOMAIN groups : g < h => ~before(groups[h], groups[g])

\* grouped by Customer and Item, the row of customer "a | b" and item "c"
\* and the row of customer "a" and item "b | c" are in one group
C33_DifferentTuplesOneGroup ==
  /\ Len(result) = 2 /\ result[1] = "grouped"
  /\ call[3] = <<"Customer", "Item">>
  /\ Len(call[2]) = 2 /\ Len(result[2]) = 1
  /\ result[2][1].count = 2
  /\ partsOf(call[2][1], call[3]) # partsOf(call[2][2], call[3])

\* C34: the total of the count query is the number of rows the selection
\* query returns for the same table and parameters without LIMIT and OFFSET,
\* also for rows with a NULL item code admitted by the include condition and
\* for rows with "|" in order number, item or colour
C34_CountEqualsSelectedRows ==
  (Len(result) = 3 /\ result[1] = "total")
    => \A selection \in selectionResults(call[2], call[3]) :
         result[3] = Len(selection[3])

\* two pending rows, order "s|a" with item "it" and order "s" with item
\* "a|it": the selection returns both, the total is 1
C34_DelimiterRowsCountedOnce ==
  /\ Len(result) = 3 /\ result[1] = "total"
  /\ Cardinality(result[2]) = 2
  /\ \E r \in result[2] : r.SO_No = <<"s", "|", "a">>
  /\ \E r \in result[2] : r.Item = <<"a", "|", "i", "t">>
  /\ result[3] = 1
  /\ \A selection \in selectionResults(call[2], call[3]) : Len(selection[3]) = 2

\* the order date of a row: SO_Date is written day first
orderDateOf(r) ==
  IF r.SO_Date.fmt = "dmy" THEN Iso(<<r.SO_Date.y, r.SO_Date.f2, r.SO_Date.f1>>)
  ELSE NoIso

\* the dates of the invoice records of the whole table that match the row
matchingInvoiceDates(r, tbl) ==
  { <<parsed_date(x.Date).y, parsed_date(x.Date).f1, parsed_date(x.Date).f2>> :
      x \in { i \in recordsOf(tbl) :
                /\ parsed_date(i.Date).fmt # "null"
                /\ normalizeCustomerForCompare(i.Customer_Name) # <<>>
                /\ normalizeCustomerForCompare(i.Customer_Name)
                     = normalizeCustomerForCompare(r.Customer)
                /\ normalizeItemForCompare(i.Item_Code) = normalizeItemForCompare(r.Item)
                /\ normalizeColorForCompare(i.Item_Color)
                     = normalizeColorForCompare(r.Color) } }

orderedBeforeLatestInvoice(r, tbl) ==
  /\ orderDateOf(r).ok
  /\ \E d \in matchingInvoiceDates(r, tbl) : DateLess(orderDateOf(r).date, d)

\* C35: after an answered invoice request a row is hidden exactly when an
\* invoice record of the whole invoice table matches its customer, item and
\* colour and its order date is strictly earlier than the latest date of the
\* matching records; a row without a match or without a readable order date
\* is kept.
C35_HiddenIffBeforeLatestInvoice ==
  (result # <<>> /\ result[1] = "invoice" /\ result[2])
    => \A r \in call[2] :
         (r \notin result[4]) <=> orderedBeforeLatestInvoice(r, call[3])

\* C35 (case reached): the table holds a thousand older invoices and a later
\* one matching the row, the engine reads the order date as written, and the
\* row ordered before that later invoice is still shown.
C35_LatestInvoiceBeyondThousandth ==
  /\ result # <<>> /\ result[1] = "invoice" /\ result[2]
  /\ call[3].older = 1000
  /\ ~call[4].monthFirst
  /\ \E r \in call[2] : orderedBeforeLatestInvoice(r, call[3]) /\ r \in result[4]

\* C36: in a session in which the operator toggles no replacement colour,
\* every row of a verification request that is sent is a visible row whose
\* checkbox was ticked when the request was made; a verified row whose
\* colour was pre-selected from its verification record is not sent along.
C36_OnlyCheckedRowsAreSent ==
  [][\A req \in BagToSet(verifyReqs') :
       req \notin BagToSet(verifyReqs)
         => \A i \in DOMAIN req.rowsToSend :
              \E j \in DOMAIN rows :
                /\ rows[j].uid \in checked
                /\ verifyRowOf(rows[j], selectedColors) = req.rowsToSend[i]]_vars

\* C36 (case reached): a request in flight carries two rows, one of them the
\* row whose verification record has a completion timestamp.
C36_VerifiedRowSentAlong ==
  \E req \in BagToSet(verifyReqs) :
    /\ Len(req.rowsToSend) = 2
    /\ \E i \in DOMAIN req.rowsToSend :
         VerifyRecKey(buildWhitelistedRow(req.rowsToSend[i]))
           \in {v.key : v \in {x \in mergeVerifyRows(verifyTable) : x.verified_at}}

\* what a cycle publishes of the rows rws when its stock request was or was
\* not answered
publishedOf(rws, ok) ==
  finalRowsOf(filteredRowsOf(sortRows(
    IF ok THEN withStock(rws, StockBatchPOST(stockTable, stockItemKeys(rws)))
    ELSE rws)), filters)

\* C37: when a cycle completes by publishing rows, every key its verification
\* fetch reported with a completion timestamp, that its dispatch-key fetch
\* did not report and whose row passes the stock and customer/item filters,
\* is a visible row, also when this session requested its verification
\* earlier and no verified:confirmed message reached it.
C37_VerifiedRowShownByLaterCycles ==
  [][\A c \in DOMAIN cycles :
       (cycles[c].pc = "stock" /\ cycles'[c].pc = "done")
         => \A ok \in BOOLEAN :
              rows' = publishedOf(cycles[c].rowsWithUid, ok)
                => \A k \in localVerifiedSetOf(cycles[c].vrows) \ cycles[c].localDispatchedSet :
                     k \in rowKeys(publishedOf(rowsWithUidOf(c, orderPage, cycles[c].vrows), ok))
                       => k \in rowKeys(rows')]_vars

\* C37 (case reached): the session requested verification of a row that had
\* no verification record, the request was confirmed, the message was not
\* delivered, every cycle has completed, and the row is not visible.
C37_ConfirmedRowStaysHidden ==
  /\ ColourRequestRecord \notin verifyTable
  /\ deliveries = 0
  /\ \A c \in DOMAIN cycles : cycles[c].pc = "done"
  /\ rows # <<>>
  /\ \E k \in (DOMAIN pendingMap) \cap localVerifiedSetOf(mergeVerifyRows(verifyTable)) :
       /\ k \notin rowKeys(rows)
       /\ k \in rowKeys(LoadedActionRows)
       /\ k \notin dispatchedSet

\* C38: in every reachable state the number of visible rows is at most the
\* displayed total, whatever cycles, verification requests, dispatches and
\* verified:confirmed messages came before.
C38_RowsWithinTotal == Len(rows) <= total

\* C38 (case reached): a verified:confirmed message was handled after an
\* accepted verification request had lowered the total, and the table shows
\* rows.
C38_RowReinsertedAfterDecrement ==
  /\ deliveries > 0
  /\ DOMAIN pendingMap = {}
  /\ \E rec \in verifyTable : rec.verified_at
  /\ rows # <<>>
  /\ Len(rows) > total

\* C39: the loading flag is true in every state in which the cycle started
\* last still has a request in flight; neither the abort handling nor the
\* finally block of a superseded cycle clears the flag under its successor.
C39_LoadingWhileCurrentCycleRuns ==
  cycles[Len(cycles)].pc # "done" => loading

\* C39 (case reached): a superseded cycle has returned, its successor still
\* waits for an answer, and the flag is false.
C39_FlagClearedUnderSuccessor ==
  /\ Len(cycles) >= 2
  /\ \E c \in 1..(Len(cycles) - 1) : cycles[c].pc = "done"
  /\ cycles[Len(cycles)].pc \in {"keys", "verify", "orders", "stock"}
  /\ ~cycles[Len(cycles)].aborted
  /\ ~loading

====
